---- MODULE Spec2Model ----
(***************************************************************************)
(* The SQLite cache (app/cache.py) and the transcript acquisition chain    *)
(* (app/transcript_service.py) of search-influencers as a state machine.   *)
(*                                                                         *)
(* Time is counted in whole hours.  `now` is the UTC wall clock; SQLite's  *)
(* CURRENT_TIMESTAMP and datetime('now') read it directly, while Python's  *)
(* datetime.now() reads the host's local time, now + tzOffset.             *)
(***************************************************************************)
EXTENDS Integers, Sequences, FiniteSets, TLC

VARIABLES
    store,      \* the cache table: key -> row, or NoRow
    now,        \* UTC wall clock, in hours
    ticks,      \* number of clock advances so far
    tzOffset,   \* local time minus UTC of the host, in hours
    apiKey,     \* config.SUPADATA_API_KEY
    env,        \* config.ENV
    baseUrl,    \* config.BASE_URL
    acq,        \* per worker: the get_video_transcript call it is running
    started,    \* number of get_video_transcript calls made so far
    sets,       \* number of direct set_cached calls made so far
    ana,        \* per worker: the analyze_with_llm call it is running
    analyses,   \* number of analyze_with_llm calls made so far
    resp,       \* the last direct cache-manager or endpoint call and its return value
    written,    \* history: per key, the value last handed to set_cached for the row
    origin,     \* history: per key, what the analyzer was handed for the row's analysis
    txn,        \* per worker: the cache-manager call it is running statement by statement
    clock,      \* time.time(), in half seconds
    LAST_REQUEST_TIME,  \* the module global of transcript_service
    scr,        \* per worker: the _fetch_via_youtube_transcript_api call it is running
    requests    \* history: the times at which the scraper was called, in order

vars == <<store, now, ticks, tzOffset, apiKey, env, baseUrl, acq, started, sets, ana, analyses,
          resp, written, origin, txn, clock, LAST_REQUEST_TIME, scr, requests>>

\* ---------------------------------------------------------------- bounds

\* The clock is advanced at most MaxTicks times, by one of TickSteps hours.
MaxTicks == 2
\* get_video_transcript is called at most MaxAcq times.
MaxAcq == 2
\* set_cached is called directly at most MaxSets times.
MaxSets == 2
\* analyze_with_llm is called at most MaxAna times.
MaxAna == 2
\* time.time() is advanced up to MaxClock half seconds.
MaxClock == 14
\* _fetch_via_youtube_transcript_api is called at most MaxScr times.
MaxScr == 3
TickSteps == {1, 24}
TzOffsets == {-1, 0, 1}
Workers == {"w1", "w2"}
Videos == {<<"v1">>, <<"v2">>}
CacheTypes == {"transcript", "llm_analysis"}
TtlChoices == {1, 24}

\* ------------------------------------------------------- Python values

\* A Python value is a record tagged with its type.  A str is a sequence of
\* tokens; a text that begins with the characters TRANSCRIPT_ERROR has that
\* token first.
None == [t |-> "none"]
Str(toks) == [t |-> "str", s |-> toks]
PyList(items) == [t |-> "list", items |-> items]
PyTuple(items) == [t |-> "tuple", items |-> items]
PyInt(n) == [t |-> "int", n |-> n]
PyBool(b) == [t |-> "bool", b |-> b]
Dict(d) == [t |-> "dict", d |-> d]

\* bool(x)
Truthy(x) ==
    CASE x.t = "none" -> FALSE
      [] x.t = "str" -> Len(x.s) > 0
      [] x.t = "list" -> Len(x.items) > 0
      [] x.t = "tuple" -> Len(x.items) > 0
      [] x.t = "int" -> x.n # 0
      [] x.t = "bool" -> x.b
      [] x.t = "dict" -> DOMAIN x.d # {}

\* d.get(k)
DictGet(x, k) == IF k \in DOMAIN x.d THEN x.d[k] ELSE None

\* json.dumps: dict -> object, list and tuple -> array, str -> string.
RECURSIVE JsonDumps(_)
JsonDumps(x) ==
    CASE x.t = "none" -> [j |-> "null"]
      [] x.t = "str" -> [j |-> "string", s |-> x.s]
      [] x.t = "int" -> [j |-> "number", n |-> x.n]
      [] x.t \in {"list", "tuple"} ->
            [j |-> "array", items |-> [i \in DOMAIN x.items |-> JsonDumps(x.items[i])]]
      [] x.t = "dict" ->
            [j |-> "object", m |-> [k \in DOMAIN x.d |-> JsonDumps(x.d[k])]]

\* json.loads: object -> dict, array -> list, string -> str.
RECURSIVE JsonLoads(_)
JsonLoads(y) ==
    CASE y.j = "null" -> None
      [] y.j = "string" -> Str(y.s)
      [] y.j = "number" -> PyInt(y.n)
      [] y.j = "array" -> PyList([i \in DOMAIN y.items |-> JsonLoads(y.items[i])])
      [] y.j = "object" -> Dict([k \in DOMAIN y.m |-> JsonLoads(y.m[k])])

\* ------------------------------------------------------ key derivation

\* hashlib.md5(...).hexdigest(), taken to be free of collisions.
Md5(s) == [md5 |-> s]

\* A key that leaves the content hash out.
GenerateCacheKeyOfType(video_id, cache_type, content_hash) ==
    Md5(video_id \o <<"|", cache_type>>)

GenerateCacheKey(video_id, cache_type, content_hash) ==
    LET key_str == video_id \o <<"|", cache_type>>
    IN  Md5(IF Truthy(content_hash)
            THEN key_str \o <<"|">> \o content_hash.s
            ELSE key_str)

Keys == {GenerateCacheKey(v, c, None) : v \in Videos, c \in CacheTypes}

\* ----------------------------------------------------------- the table

NoRow == [present |-> FALSE]

Row(video_id, cache_type, value, content_hash, ttl_hours, created_at) ==
    [present |-> TRUE, video_id |-> video_id, cache_type |-> cache_type,
     value |-> value, content_hash |-> content_hash, ttl_hours |-> ttl_hours,
     created_at |-> created_at]

\* get_cached's default ttl_hours, the column default, and the ttl every
\* caller of set_cached passes.
DefaultTtlHours == 24

\* datetime.now(): the host's local wall clock.
DatetimeNow(utc, tz) == utc + tz

\* A DELETE that removes no row.
DeleteNothing(db, key) == [db |-> db, ret |-> TRUE]

\* A DELETE that names the video of the row instead of its key.
DeleteCachedOfVideo(db, key) ==
    [db |-> [k \in DOMAIN db |->
                IF db[k].present /\ db[key].present /\ db[k].video_id = db[key].video_id
                THEN NoRow ELSE db[k]],
     ret |-> TRUE]

DeleteCached(db, key) ==
    [db |-> [db EXCEPT ![key] = NoRow], ret |-> TRUE]

\* The expiry test of get_cached.
ExpiredOnRead(row, ttl_hours, utc, tz) ==
    DatetimeNow(utc, tz) - row.created_at > ttl_hours

GetCached(db, key, ttl_hours, utc, tz) ==
    LET row == db[key]
    IN  IF ~row.present
        THEN [db |-> db, ret |-> None]
        ELSE IF ExpiredOnRead(row, ttl_hours, utc, tz)
             THEN [db |-> DeleteCached(db, key).db, ret |-> None]
             ELSE [db |-> db, ret |-> JsonLoads(row.value)]

\* An upsert that updates the row it finds: INSERT ... ON CONFLICT(key) DO
\* UPDATE SET of the six columns named, created_at keeping its value.
SetCachedByUpdate(db, key, video_id, cache_type, value, content_hash, ttl_hours, utc) ==
    [db |-> [db EXCEPT ![key] =
                Row(video_id, cache_type, JsonDumps(value), content_hash, ttl_hours,
                    IF db[key].present THEN db[key].created_at ELSE utc)],
     ret |-> TRUE]

\* INSERT OR REPLACE; created_at takes the column default CURRENT_TIMESTAMP.
SetCached(db, key, video_id, cache_type, value, content_hash, ttl_hours, utc) ==
    [db |-> [db EXCEPT ![key] =
                Row(video_id, cache_type, JsonDumps(value), content_hash, ttl_hours, utc)],
     ret |-> TRUE]

\* A sweep that takes every row to have the default ttl.
ExpiredOnSweepByDefault(row, utc) == row.created_at + DefaultTtlHours < utc

\* The WHERE clause of clear_expired_cache.
ExpiredOnSweep(row, utc) == row.created_at + row.ttl_hours < utc

\* A DELETE without its WHERE clause.
ClearEveryRow(db, cache_type) ==
    [db |-> [k \in DOMAIN db |-> NoRow],
     ret |-> Cardinality({k \in DOMAIN db : db[k].present})]

\* A route that hands every cache_type on.
ValidCacheTypeAny(cache_type) == TRUE

\* The test of clear_cache on its path parameter.
ValidCacheType(cache_type) == cache_type \in {"transcript", "llm_analysis"}

ClearExpiredCache(db, utc) ==
    LET gone == {k \in DOMAIN db : db[k].present /\ ExpiredOnSweep(db[k], utc)}
    IN  [db |-> [k \in DOMAIN db |-> IF k \in gone THEN NoRow ELSE db[k]],
         ret |-> Cardinality(gone)]

ClearCacheByPattern(db, cache_type) ==
    LET gone == {k \in DOMAIN db : db[k].present /\ db[k].cache_type = cache_type}
    IN  [db |-> [k \in DOMAIN db |-> IF k \in gone THEN NoRow ELSE db[k]],
         ret |-> Cardinality(gone)]

\* SELECT COUNT(*), MIN(created_at) and MAX(created_at) of get_cache_stats.
\* size_mb and database_file, which depend on character counts and on the
\* path of the file, are left out of the result.
GetCacheStats(db) ==
    LET rows == {k \in DOMAIN db : db[k].present}
        times == {db[k].created_at : k \in rows}
    IN  [db |-> db,
         ret |-> [status |-> "Connected",
                  total_entries |-> Cardinality(rows),
                  transcripts |-> Cardinality({k \in rows : db[k].cache_type = "transcript"}),
                  llm_analyses |-> Cardinality({k \in rows : db[k].cache_type = "llm_analysis"}),
                  oldest_entry |-> IF rows = {} THEN None
                                   ELSE PyInt(CHOOSE t \in times : \A u \in times : t <= u),
                  newest_entry |-> IF rows = {} THEN None
                                   ELSE PyInt(CHOOSE t \in times : \A u \in times : t >= u)]]

\* ------------------------------------------------ failures of the store

\* The condition of the database file during one call: "none" when every
\* statement works, "io_error" when sqlite3.connect or execute raises
\* sqlite3.OperationalError.
StoreFaults == {"none", "io_error"}

\* What the body of a cache-manager function can raise.
Exceptions == {"sqlite3.OperationalError", "json.JSONDecodeError", "TypeError"}

\* A handler written `except sqlite3.Error`.
ExceptSqliteError(exc) == exc = "sqlite3.OperationalError"

\* `except Exception as e:`, the handler of every cache-manager function.
ExceptException(exc) == exc \in Exceptions

\* A value column that is not JSON text (a row damaged in the file).
Corrupt == [j |-> "invalid"]

\* Whether json.dumps accepts the value: it raises TypeError on bytes.
RECURSIVE Serializable(_)
Serializable(x) ==
    CASE x.t = "bytes" -> FALSE
      [] x.t \in {"list", "tuple"} -> \A i \in DOMAIN x.items : Serializable(x.items[i])
      [] x.t = "dict" -> \A k \in DOMAIN x.d : Serializable(x.d[k])
      [] OTHER -> TRUE

\* get_cached: the body in its try block, the handler returning None.
get_cached(db, key, ttl_hours, utc, tz, fault) ==
    LET row == db[key]
        exc == IF fault # "none" THEN "sqlite3.OperationalError"
               ELSE IF /\ row.present
                       /\ ~ExpiredOnRead(row, ttl_hours, utc, tz)
                       /\ row.value = Corrupt
                    THEN "json.JSONDecodeError"
                    ELSE "none"
    IN  IF exc = "none"
        THEN LET r == GetCached(db, key, ttl_hours, utc, tz)
             IN  [db |-> r.db, ret |-> r.ret, raised |-> "none"]
        ELSE IF ExceptException(exc)
             THEN [db |-> db, ret |-> None, raised |-> "none"]
             ELSE [db |-> db, ret |-> None, raised |-> exc]

\* set_cached: the handler returns False.
set_cached(db, key, video_id, cache_type, value, content_hash, ttl_hours, utc, fault) ==
    LET exc == IF fault # "none" THEN "sqlite3.OperationalError"
               ELSE IF ~Serializable(value) THEN "TypeError"
               ELSE "none"
    IN  IF exc = "none"
        THEN LET r == SetCached(db, key, video_id, cache_type, value, content_hash,
                                ttl_hours, utc)
             IN  [db |-> r.db, ret |-> r.ret, raised |-> "none"]
        ELSE IF ExceptException(exc)
             THEN [db |-> db, ret |-> FALSE, raised |-> "none"]
             ELSE [db |-> db, ret |-> FALSE, raised |-> exc]

\* delete_cached: the handler returns False.
delete_cached(db, key, fault) ==
    LET exc == IF fault # "none" THEN "sqlite3.OperationalError" ELSE "none"
    IN  IF exc = "none"
        THEN LET r == DeleteCached(db, key)
             IN  [db |-> r.db, ret |-> r.ret, raised |-> "none"]
        ELSE IF ExceptException(exc)
             THEN [db |-> db, ret |-> FALSE, raised |-> "none"]
             ELSE [db |-> db, ret |-> FALSE, raised |-> exc]

\* clear_expired_cache: the handler returns 0.
clear_expired_cache(db, utc, fault) ==
    LET exc == IF fault # "none" THEN "sqlite3.OperationalError" ELSE "none"
    IN  IF exc = "none"
        THEN LET r == ClearExpiredCache(db, utc)
             IN  [db |-> r.db, ret |-> r.ret, raised |-> "none"]
        ELSE IF ExceptException(exc)
             THEN [db |-> db, ret |-> 0, raised |-> "none"]
             ELSE [db |-> db, ret |-> 0, raised |-> exc]

\* clear_cache_by_pattern: the handler returns 0.
clear_cache_by_pattern(db, cache_type, fault) ==
    LET exc == IF fault # "none" THEN "sqlite3.OperationalError" ELSE "none"
    IN  IF exc = "none"
        THEN LET r == ClearCacheByPattern(db, cache_type)
             IN  [db |-> r.db, ret |-> r.ret, raised |-> "none"]
        ELSE IF ExceptException(exc)
             THEN [db |-> db, ret |-> 0, raised |-> "none"]
             ELSE [db |-> db, ret |-> 0, raised |-> exc]

\* get_cache_stats: the handler returns {"status": "Error", "error": str(e)}.
get_cache_stats(db, fault) ==
    LET exc == IF fault # "none" THEN "sqlite3.OperationalError" ELSE "none"
    IN  IF exc = "none"
        THEN LET r == GetCacheStats(db)
             IN  [db |-> r.db, ret |-> r.ret, raised |-> "none"]
        ELSE IF ExceptException(exc)
             THEN [db |-> db, ret |-> [status |-> "Error", error |-> exc], raised |-> "none"]
             ELSE [db |-> db, ret |-> [status |-> "Error", error |-> exc], raised |-> exc]

\* ------------------------------------------------------- configuration

\* os.getenv("SUPADATA_API_KEY"): unset, set but empty, or a key.
ApiKeys == {None, Str(<<>>), Str(<<"sk-1">>)}

LocalhostUrl == <<"http://", "localhost", ":8000">>
CloudUrl == <<"https://", "influencers.example.com">>

\* (ENV, BASE_URL) of a deployment.
EnvConfigs ==
    { <<(<<"Development">>), LocalhostUrl>>,
      <<(<<"production">>), LocalhostUrl>>,
      <<(<<"production">>), CloudUrl>> }

\* str.lower() on the tokens in use.
Lower(tok) ==
    CASE tok = "Development" -> "development"
      [] tok = "LOCAL" -> "local"
      [] OTHER -> tok

_LOCAL_INDICATORS == {"localhost", "127.0.0.1", "local", "development", "staging-local"}

\* config.IS_LOCAL_ENV
IS_LOCAL_ENV(e, url) ==
    LET byEnv == \E i \in DOMAIN e : Lower(e[i]) \in _LOCAL_INDICATORS
    IN  IF byEnv
        THEN TRUE
        ELSE \/ \E i \in DOMAIN url : Lower(url[i]) = "localhost"
             \/ \E i \in DOMAIN url : url[i] = "127.0.0.1"

\* ---------------------------------------------------------- providers

TRANSCRIPT_ERROR == "TRANSCRIPT_ERROR"

\* f"TRANSCRIPT_ERROR: {msg}"
ErrorText(msg) == Str(<<TRANSCRIPT_ERROR, ": ", msg>>)

\* Transcript texts a provider may hold for a video.
Texts == {<<"alpha">>, <<"beta">>}

\* What requests.get can do: raise Timeout or ConnectionError, or return a
\* response with a status code and a body.  A body is JSON text (given as
\* the JSON value it denotes) or not JSON at all.
SupadataBodies ==
    { [j |-> "invalid"],
      [j |-> "array", items |-> <<>>],
      [j |-> "object", m |-> [lang |-> [j |-> "string", s |-> <<"en">>]]],
      [j |-> "object", m |-> [content |-> [j |-> "string", s |-> <<>>]]],
      [j |-> "object", m |-> [content |-> [j |-> "number", n |-> 7]]],
      [j |-> "object", m |-> [content |-> [j |-> "array",
                                           items |-> <<[j |-> "string", s |-> <<"alpha">>]>>]]],
      [j |-> "object", m |-> [content |-> [j |-> "string",
                                           s |-> <<TRANSCRIPT_ERROR, " is a word">>]]] }
    \cup { [j |-> "object", m |-> [content |-> [j |-> "string", s |-> t]]] : t \in Texts }

SupadataResponses ==
    { [kind |-> "timeout"], [kind |-> "connection_error"] }
    \cup { [kind |-> "http", status |-> c, body |-> [j |-> "invalid"]] :
             c \in {401, 429, 404, 500, 403} }
    \cup { [kind |-> "http", status |-> 200, body |-> b] : b \in SupadataBodies }

\* The part of _fetch_via_supdata_api._call after a 2xx/3xx status.
SupadataParse(body) ==
    IF body.j = "invalid"
    THEN ErrorText("Invalid JSON response")
    ELSE LET data == JsonLoads(body)
         IN  IF data.t # "dict"
             THEN ErrorText("object has no attribute 'get'")
             ELSE LET transcript == IF "content" \in DOMAIN data.d
                                    THEN data.d["content"]
                                    ELSE Dict(<<>>)
                  IN  IF ~Truthy(transcript)
                      THEN ErrorText("Empty transcript")
                      ELSE IF transcript.t \notin {"str", "list", "tuple", "dict"}
                           THEN ErrorText("object has no len()")
                           ELSE transcript

\* _fetch_via_supdata_api: the value it returns for each outcome of the request.
_fetch_via_supdata_api(r) ==
    CASE r.kind = "timeout" -> ErrorText("API timeout")
      [] r.kind = "connection_error" -> ErrorText("Connection error")
      [] r.kind = "http" /\ r.status = 401 -> ErrorText("Authentication failed (401)")
      [] r.kind = "http" /\ r.status = 429 -> ErrorText("Rate limit exceeded (429)")
      [] r.kind = "http" /\ r.status = 404 -> ErrorText("Video not found (404)")
      [] r.kind = "http" /\ r.status \notin {401, 429, 404} /\ r.status >= 500 ->
            ErrorText("Server error")
      [] r.kind = "http" /\ r.status \notin {401, 429, 404} /\ r.status < 500
            /\ r.status >= 400 -> ErrorText("Client error")
      [] OTHER -> SupadataParse(r.body)

\* get_transcript_via_youtube_api: no caption track, or the downloaded track's
\* text (None when the download fails or the track is empty).
YoutubeApiOutcomes ==
    { [captions |-> FALSE, text |-> <<>>] }
    \cup { [captions |-> TRUE, text |-> t] : t \in Texts \cup {<<>>} }

get_transcript_via_youtube_api(o) ==
    IF ~o.captions THEN None
    ELSE IF Len(o.text) > 0 THEN Str(o.text) ELSE None

\* _fetch_via_youtube_transcript_api: the joined segments, or the error text
\* of the exception YouTubeTranscriptApi raised.
ScraperOutcomes ==
    { [raised |-> TRUE, text |-> <<>>] }
    \cup { [raised |-> FALSE, text |-> t] : t \in Texts \cup {<<>>} }

_fetch_via_youtube_transcript_api(o) ==
    IF o.raised THEN ErrorText("transcripts disabled") ELSE Str(o.text)

\* ------------------------------------------------ get_video_transcript

\* _cache_transcript: set_cached in a try block of its own, whose handler
\* returns False.
_cache_transcript(db, cache_key, video_id, transcript, utc, fault) ==
    LET was_cached == set_cached(db, cache_key, video_id, "transcript",
                                 Dict([transcript |-> transcript]), None,
                                 DefaultTtlHours, utc, fault)
    IN  IF was_cached.raised # "none"
        THEN [db |-> db, ret |-> FALSE, raised |-> "none"]
        ELSE was_cached

\* A test `transcript is not None`.
TranscriptCheckNotNone(transcript) ==
    IF transcript = None THEN "failed" ELSE "usable"

\* A test `if transcript:` without the look at the prefix.
TranscriptCheckTruthy(transcript) ==
    IF ~Truthy(transcript) THEN "failed"
    ELSE IF transcript.t # "str" THEN "raised"
    ELSE "usable"

\* The test `transcript and not transcript.startswith("TRANSCRIPT_ERROR")`:
\* str.startswith on a value that is true but no str raises AttributeError.
TranscriptCheck(transcript) ==
    IF ~Truthy(transcript) THEN "failed"
    ELSE IF transcript.t # "str" THEN "raised"
    ELSE IF transcript.s[1] = TRANSCRIPT_ERROR THEN "failed"
    ELSE "usable"

\* A get_video_transcript that caches whatever the provider returned.
CachesOnAnyResult(check) == check \in {"usable", "failed"}

\* Under the test: _cache_transcript is called ...
CachesOn(check) == check = "usable"

\* A get_video_transcript that caches the transcript but forgets to return it.
ReturnsNever(check) == FALSE

\* ... and the transcript is returned.
ReturnsOn(check) == check = "usable"

\* A get_video_transcript that returns the transcript only when the cache
\* accepted it: `if _cache_transcript(...): return transcript`.
ReturnsOnlyIfCached(was_cached) == was_cached

\* `return transcript` follows _cache_transcript whatever it returned.
ReturnsAfterWrite(was_cached) == TRUE

\* The provider states in their order in the function body.
Chain == <<"PrimaryProviderAttempt", "SecondaryProviderAttempt", "FallbackScraperAttempt">>

\* STEP 2 is commented out: the YouTube Data API is never called.
PrimaryAttempted == FALSE

\* A gate that tests `SUPADATA_API_KEY is not None`.
SecondaryAttemptedUnlessNone(key) == key # None

\* STEP 3: `if SUPADATA_API_KEY:`
SecondaryAttempted(key) == Truthy(key)

\* STEP 4 with its call restored and its IS_LOCAL_ENV gate left out.
FallbackAttemptedAlways(is_local) == TRUE

\* STEP 4 is commented out: youtube-transcript-api is never called, whatever
\* IS_LOCAL_ENV says.
FallbackAttempted(is_local) == FALSE

Entered(state, key, is_local) ==
    CASE state = "PrimaryProviderAttempt" -> PrimaryAttempted
      [] state = "SecondaryProviderAttempt" -> SecondaryAttempted(key)
      [] state = "FallbackScraperAttempt" -> FallbackAttempted(is_local)

\* A chain that stays on the provider that failed while its step is entered.
AdvanceOrRetry(i, key, is_local) ==
    LET next == {j \in (IF i = 0 THEN 1 ELSE i)..Len(Chain) : Entered(Chain[j], key, is_local)}
    IN  IF next = {} THEN "AllFailed"
        ELSE Chain[CHOOSE j \in next : \A k \in next : j <= k]

\* The next state after position i of the chain (0 is CacheCheck): the first
\* later provider whose step is entered, or AllFailed.
Advance(i, key, is_local) ==
    LET later == {j \in (i + 1)..Len(Chain) : Entered(Chain[j], key, is_local)}
    IN  IF later = {} THEN "AllFailed"
        ELSE Chain[CHOOSE j \in later : \A k \in later : j <= k]

Position(state) == CHOOSE i \in DOMAIN Chain : Chain[i] = state

\* The answers of supadata.ai that hold no text: status 200 and a JSON object
\* whose content is the empty string or is missing.
EmptyResponses ==
    { [kind |-> "http", status |-> 200, body |-> b] :
        b \in {x \in SupadataBodies :
                 /\ x.j = "object"
                 /\ "content" \in DOMAIN x.m => x.m["content"] = [j |-> "string", s |-> <<>>]} }

\* The answers of supadata.ai that are failures, one or more of each subkind:
\* authentication failure, rate limit, not found, server error, client
\* error, a body that is no JSON, timeout and connection error.
FailureResponses ==
    {r \in SupadataResponses :
        \/ r.kind \in {"timeout", "connection_error"}
        \/ r.kind = "http" /\ r.status >= 400
        \/ r.kind = "http" /\ r.body.j = "invalid"}

\* What each provider call can return.
PrimaryResults == {get_transcript_via_youtube_api(o) : o \in YoutubeApiOutcomes}
SecondaryResults == {_fetch_via_supdata_api(r) : r \in SupadataResponses}
FallbackResults == {_fetch_via_youtube_transcript_api(o) : o \in ScraperOutcomes}

\* What the provider awaited in `state` can return.
ProviderResults(state) ==
    CASE state = "PrimaryProviderAttempt" -> PrimaryResults
      [] state = "SecondaryProviderAttempt" -> SecondaryResults
      [] state = "FallbackScraperAttempt" -> FallbackResults

\* Every value a provider call can return.
ProviderValues == PrimaryResults \cup SecondaryResults \cup FallbackResults

Terminal == {"Success", "AllFailed", "Raised"}

Idle == [pc |-> "idle", vid |-> <<>>, calls |-> <<>>, result |-> None, wrote |-> FALSE]

\* written after a step that turned the table from db to db2, key k (if any)
\* having been set to value v.
Written(db2, k, v) ==
    [x \in DOMAIN db2 |->
        IF ~db2[x].present THEN None
        ELSE IF x = k THEN v
        ELSE written[x]]

\* written after a step that only deleted rows.
WrittenKept(db2) ==
    [x \in DOMAIN db2 |-> IF db2[x].present THEN written[x] ELSE None]

\* get_video_transcript from its first line to its first await or return:
\* the cache check, then the steps down to the first provider that is
\* attempted (its request is sent) or to the final return None.
AcqStart(w, v, fault) ==
    /\ acq[w].pc \in {"idle"} \cup Terminal
    /\ started < MaxAcq
    /\ started' = started + 1
    /\ LET cache_key == GenerateCacheKey(v, "transcript", None)
           g == get_cached(store, cache_key, DefaultTtlHours, now, tzOffset, fault)
           nxt == Advance(0, apiKey, IS_LOCAL_ENV(env, baseUrl))
           fresh == [Idle EXCEPT !.vid = v]
       IN  /\ store' = g.db
           /\ written' = WrittenKept(g.db)
           /\ acq' = [acq EXCEPT ![w] =
                IF g.raised # "none"
                THEN [fresh EXCEPT !.pc = "Raised"]
                ELSE IF g.ret # None
                THEN IF g.ret.t = "dict"
                     THEN [fresh EXCEPT !.pc = "Success",
                                        !.result = DictGet(g.ret, "transcript")]
                     ELSE [fresh EXCEPT !.pc = "Raised"]
                ELSE IF nxt = "AllFailed"
                     THEN [fresh EXCEPT !.pc = "AllFailed"]
                     ELSE [fresh EXCEPT !.pc = nxt, !.calls = <<nxt>>]]
    /\ UNCHANGED <<txn, clock, LAST_REQUEST_TIME, scr, requests, origin, ana, analyses, now, ticks, tzOffset, apiKey, env, baseUrl, sets, resp>>

\* The awaited provider call returns `transcript` and get_video_transcript
\* runs on to its next await or return.
AcqProviderReturn(w, transcript, fault) ==
    /\ acq[w].pc \in {Chain[i] : i \in DOMAIN Chain}
    /\ transcript \in ProviderResults(acq[w].pc)
    /\ LET a == acq[w]
           check == TranscriptCheck(transcript)
           cache_key == GenerateCacheKey(a.vid, "transcript", None)
           caches == check # "raised" /\ CachesOn(check)
           c == IF caches
                THEN _cache_transcript(store, cache_key, a.vid, transcript, now, fault)
                ELSE [db |-> store, ret |-> FALSE, raised |-> "none"]
           nxt == Advance(Position(a.pc), apiKey, IS_LOCAL_ENV(env, baseUrl))
           seen == [a EXCEPT !.wrote = c.ret \/ a.wrote]
       IN  /\ store' = c.db
           /\ written' = IF c.ret
                          THEN Written(c.db, cache_key, Dict([transcript |-> transcript]))
                          ELSE WrittenKept(c.db)
           /\ acq' = [acq EXCEPT ![w] =
                IF check = "raised"
                THEN [seen EXCEPT !.pc = "Raised"]
                ELSE IF ReturnsOn(check) /\ (caches => ReturnsAfterWrite(c.ret))
                     THEN [seen EXCEPT !.pc = "Success", !.result = transcript]
                     ELSE IF nxt = "AllFailed"
                          THEN [seen EXCEPT !.pc = "AllFailed"]
                          ELSE [seen EXCEPT !.pc = nxt, !.calls = Append(a.calls, nxt)]]
    /\ UNCHANGED <<txn, clock, LAST_REQUEST_TIME, scr, requests, origin, ana, analyses, now, ticks, tzOffset, apiKey, env, baseUrl, started, sets, resp>>

\* ----------------------------------------------------- analyze_with_llm

\* A str is a sequence of characters here, so that joining strings can make
\* two different inputs into one text.  comments is a list of str, given as
\* the sequence of their character sequences.

\* seq[:n]
Slice(seq, n) == SubSeq(seq, 1, IF Len(seq) < n THEN Len(seq) ELSE n)

\* ''.join(items)
RECURSIVE Join(_)
Join(items) == IF items = <<>> THEN <<>> ELSE Head(items) \o Join(Tail(items))

\* " ".join(items)
RECURSIVE JoinSpaces(_)
JoinSpaces(items) ==
    IF items = <<>> THEN <<>>
    ELSE IF Len(items) = 1 THEN Head(items)
    ELSE Head(items) \o <<" ">> \o JoinSpaces(Tail(items))

\* {x} in an f-string: None is written as the text None.
Format(x) == IF x = None THEN <<"N", "o", "n", "e">> ELSE x.s

\* A fingerprint taken from the comments alone.
ContentOfComments(transcript, comments) == Join(Slice(comments, 5))

\* content = f"{transcript}{''.join(comments[:5])}"
Content(transcript, comments) == Format(transcript) \o Join(Slice(comments, 5))

\* generate_content_hash: the first 8 hex digits of SHA-256, taken to be free
\* of collisions.
GenerateContentHash(content) == Str(<<"sha256(">> \o content \o <<")">>)

\* The cache key analyze_with_llm derives from its arguments.
AnalysisKey(video_id, transcript, comments) ==
    GenerateCacheKey(video_id, "llm_analysis",
                     GenerateContentHash(Content(transcript, comments)))

\* What chain.invoke hands to the analyzer.
AnalyzerInput(video_id, transcript, comments) ==
    [video_id |-> video_id,
     transcript |-> IF Truthy(transcript) THEN Slice(transcript.s, 3000) ELSE <<>>,
     comments |-> JoinSpaces(Slice(comments, 20))]

\* `if not transcript and not comments: return {}`
EmptyInput(transcript, comments) == ~Truthy(transcript) /\ comments = <<>>

Five == [i \in 1..5 |-> <<"c">>]

\* (transcript, comments) pairs analyze_with_llm is called with; the transcript
\* is None when get_video_transcript found none.
AnalyzeInputs ==
    { [transcript |-> Str(<<"a">>), comments |-> <<>>],
      [transcript |-> Str(<<"b">>), comments |-> <<>>],
      [transcript |-> Str(<<>>), comments |-> <<>>],
      [transcript |-> None, comments |-> <<>>],
      [transcript |-> Str(<<"a", "b">>), comments |-> <<>>],
      [transcript |-> Str(<<"a">>), comments |-> << <<"b">> >>],
      [transcript |-> None, comments |-> << <<"b">> >>],
      [transcript |-> Str(<<"a">>), comments |-> Five \o << <<"y">> >>],
      [transcript |-> Str(<<"a">>), comments |-> Five \o << <<"z">> >>] }

\* Calls for one video that have no input, and calls whose transcript is a
\* text: one letter, or the four letters of the word None.
EmptyKeyInputs ==
    { [transcript |-> None, comments |-> <<>>],
      [transcript |-> Str(<<>>), comments |-> <<>>],
      [transcript |-> Str(<<"a">>), comments |-> <<>>],
      [transcript |-> Str(<<"N", "o", "n", "e">>), comments |-> <<>>] }

AnalysisKeys ==
    {AnalysisKey(v, i.transcript, i.comments) : v \in Videos, i \in AnalyzeInputs}

\* The comments get_video_comments returns to search_all: at most
\* MAX_COMMENTS_PER_VIDEO of them, none when the request fails.
MAX_COMMENTS_PER_VIDEO == 1
VideoComments == {[i \in 1..n |-> <<"b">>] : n \in 0..MAX_COMMENTS_PER_VIDEO}

\* (transcript, comments) pairs search_all hands to analyze_with_llm.
SearchInputs ==
    { [transcript |-> t, comments |-> c] :
        t \in {None} \cup {Str(x) : x \in Texts}, c \in VideoComments }

SearchKeys ==
    {AnalysisKey(v, i.transcript, i.comments) : v \in Videos, i \in SearchInputs}

\* Every key the table is asked about.
AllKeys == Keys \cup AnalysisKeys \cup SearchKeys

\* The JSON objects the analyzer is asked for.
Analyses ==
    { [j |-> "object", m |-> [review_tone |-> [j |-> "string", s |-> <<tone>>]]] :
        tone \in {"positive", "negative"} }

\* What the model's reply holds once its fence is removed: no JSON at all, or
\* the JSON value it denotes.
LlmBodies ==
    Analyses \cup
    { [j |-> "invalid"],
      [j |-> "object", m |-> <<>>],
      [j |-> "string", s |-> <<"sorry">>],
      [j |-> "array", items |-> <<[j |-> "string", s |-> <<"shoes">>]>>],
      [j |-> "null"] }

\* chain.invoke raises, or returns a message whose content is a body, bare,
\* in a ```json fence or in a ``` fence.
AnalyzerOutputs ==
    { [kind |-> "raises"] }
    \cup { [kind |-> "content", fence |-> "none", body |-> b] : b \in LlmBodies }
    \cup { [kind |-> "content", fence |-> f, body |-> b] :
             f \in {"json", "plain"}, b \in Analyses }

\* .replace("```json\n", "").replace("\n```", ""): a ```json fence is removed
\* whole, a ``` fence keeps its opening line, which is no JSON.
CleanJson(out) == IF out.fence = "plain" THEN [j |-> "invalid"] ELSE out.body

\* The try block of _call: chain.invoke, the cleaning and json.loads.  Any
\* exception in it is raised again as ValueError.
LlmCall(out) ==
    IF out.kind = "raises" THEN [raised |-> "ValueError", ret |-> None]
    ELSE IF CleanJson(out).j = "invalid" THEN [raised |-> "ValueError", ret |-> None]
    ELSE [raised |-> "none", ret |-> JsonLoads(CleanJson(out))]

\* An analyze_with_llm that caches whatever it is about to return.
CachesAnyAnalysis(analysis_result) == TRUE

\* `if analysis_result and not isinstance(analysis_result, str):`
CachesAnalysis(analysis_result) == Truthy(analysis_result) /\ analysis_result.t # "str"

\* An analyze_with_llm whose _call has no shortcut for empty input.
NeverShortCircuits(transcript, comments) == FALSE

\* _call returns {} before the analyzer is built.
ShortCircuits(transcript, comments) == EmptyInput(transcript, comments)

\* An analyze_with_llm whose handler returns {} instead of raising.
SwallowsLlmError(raised) == FALSE

\* `raise ValueError(...)` in the handler of _call leaves analyze_with_llm.
Propagates(raised) == raised # "none"

AnaTerminal == {"Hit", "Done", "Raised"}

\* A call of analyze_with_llm: where it is, its arguments while it waits for
\* the analyzer, and at its end what it returned, whether the analyzer was
\* invoked and whether a row was written.
AnaIdle == [pc |-> "idle", vid |-> <<>>, transcript |-> None, comments |-> <<>>,
            result |-> None, invoked |-> FALSE, wrote |-> FALSE]

\* analyze_with_llm from its first line to its await or return: the key, the
\* cache check, and on a miss either the shortcut of _call or the request to
\* the analyzer.
AnalyzeStart(w, v, transcript, comments, fault) ==
    /\ ana[w].pc \in {"idle"} \cup AnaTerminal
    /\ analyses < MaxAna
    /\ analyses' = analyses + 1
    /\ LET cache_key == AnalysisKey(v, transcript, comments)
           g == get_cached(store, cache_key, DefaultTtlHours, now, tzOffset, fault)
       IN  /\ store' = g.db
           /\ written' = WrittenKept(g.db)
           /\ ana' = [ana EXCEPT ![w] =
                IF g.raised # "none"
                THEN [AnaIdle EXCEPT !.pc = "Raised"]
                ELSE IF g.ret # None
                THEN [AnaIdle EXCEPT !.pc = "Hit", !.result = g.ret]
                ELSE IF ShortCircuits(transcript, comments)
                THEN [AnaIdle EXCEPT !.pc = "Done", !.result = Dict(<<>>)]
                ELSE [AnaIdle EXCEPT !.pc = "Analyzer", !.vid = v,
                                     !.transcript = transcript, !.comments = comments,
                                     !.invoked = TRUE]]
    /\ UNCHANGED <<txn, clock, LAST_REQUEST_TIME, scr, requests, now, ticks, tzOffset, apiKey, env, baseUrl, acq, started, sets, resp, origin>>

\* The analyzer answers (or fails) and analyze_with_llm runs to its end.
AnalyzeReturn(w, out, fault) ==
    /\ ana[w].pc = "Analyzer"
    /\ LET a == ana[w]
           r == LlmCall(out)
           content_hash == GenerateContentHash(Content(a.transcript, a.comments))
           cache_key == GenerateCacheKey(a.vid, "llm_analysis", content_hash)
           caches == r.raised = "none" /\ CachesAnalysis(r.ret)
           c == IF caches
                THEN set_cached(store, cache_key, a.vid, "llm_analysis", r.ret,
                                content_hash, DefaultTtlHours, now, fault)
                ELSE [db |-> store, ret |-> FALSE, raised |-> "none"]
       IN  /\ store' = c.db
           /\ written' = IF c.ret THEN Written(c.db, cache_key, r.ret) ELSE WrittenKept(c.db)
           /\ origin' = IF c.ret
                         THEN [origin EXCEPT ![cache_key] =
                                 AnalyzerInput(a.vid, a.transcript, a.comments)]
                         ELSE origin
           /\ ana' = [ana EXCEPT ![w] =
                IF Propagates(r.raised) \/ c.raised # "none"
                THEN [AnaIdle EXCEPT !.pc = "Raised", !.invoked = TRUE, !.wrote = c.ret]
                ELSE IF r.raised # "none"
                THEN [AnaIdle EXCEPT !.pc = "Done", !.invoked = TRUE,
                                     !.result = Dict(<<>>)]
                ELSE [AnaIdle EXCEPT !.pc = "Done", !.invoked = TRUE,
                                     !.result = r.ret, !.wrote = c.ret]]
    /\ UNCHANGED <<txn, clock, LAST_REQUEST_TIME, scr, requests, now, ticks, tzOffset, apiKey, env, baseUrl, acq, started, sets, analyses, resp>>

\* ----------------------------------------------------------- search_all

\* A row whose transcript field is the transcript as an f-string prints it.
SearchRowFormatted(vid, transcript, llm) ==
    [video_id |-> vid,
     transcript_snippet |-> Slice(Format(transcript), 250),
     llm_review_tone |-> IF Truthy(DictGet(llm, "review_tone"))
                         THEN DictGet(llm, "review_tone") ELSE PyList(<<>>)]

\* The row search_all appends for a video, the fields taken from the channel
\* and video metadata and comments_count left out.
SearchRow(vid, transcript, llm) ==
    LET OrEmpty(x) == IF Truthy(x) THEN x ELSE PyList(<<>>)
    IN  [video_id |-> vid,
         transcript_snippet |-> Slice((IF Truthy(transcript) THEN transcript
                                                           ELSE Str(<<>>)).s, 250),
         llm_review_tone |-> OrEmpty(DictGet(llm, "review_tone"))]

\* transcript = await get_video_transcript(vid), for the one video of the one
\* channel the search found.
SearchTranscript(w, v) ==
    /\ acq[w].pc = "idle"
    /\ ana[w].pc = "idle"
    /\ AcqStart(w, v, "none")

\* comments = await get_video_comments(vid, ...) and the call of
\* analyze_with_llm(vid, transcript, comments).
SearchAnalyze(w, comments) ==
    /\ acq[w].pc \in {"Success", "AllFailed"}
    /\ ana[w].pc = "idle"
    /\ AnalyzeStart(w, acq[w].vid, acq[w].result, comments, "none")

\* The row is built and the response returned; an exception of either call,
\* or of llm.get on a value that is no dict, is answered 500.
SearchRespond(w) ==
    /\ \/ acq[w].pc = "Raised"
       \/ acq[w].pc \in {"Success", "AllFailed"} /\ ana[w].pc \in AnaTerminal
    /\ resp' = IF \/ acq[w].pc = "Raised"
                  \/ ana[w].pc = "Raised"
                  \/ ana[w].result.t # "dict"
               THEN [op |-> "search", status |-> 500]
               ELSE [op |-> "search", status |-> 200,
                     rows |-> <<SearchRow(acq[w].vid, acq[w].result, ana[w].result)>>]
    /\ acq' = [acq EXCEPT ![w] = Idle]
    /\ ana' = [ana EXCEPT ![w] = AnaIdle]
    /\ UNCHANGED <<txn, clock, LAST_REQUEST_TIME, scr, requests, origin, analyses, store, written, now, ticks, tzOffset, apiKey, env, baseUrl, started, sets>>

\* ------------------------------------------------------------ the clock

Tick(d) ==
    /\ ticks < MaxTicks
    /\ now' = now + d
    /\ ticks' = ticks + 1
    /\ UNCHANGED <<txn, clock, LAST_REQUEST_TIME, scr, requests, origin, ana, analyses, store, tzOffset, apiKey, env, baseUrl, acq, started, sets, resp, written>>

\* ------------------------------------------------- administrative routes

\* POST /cache/cleanup; an exception that leaves the handler is answered 500.
cleanup_cache(fault) ==
    LET c == clear_expired_cache(store, now, fault)
    IN  /\ store' = c.db
        /\ written' = WrittenKept(c.db)
        /\ resp' = IF c.raised # "none"
                   THEN [op |-> "cleanup", status |-> 500]
                   ELSE [op |-> "cleanup", status |-> 200, deleted_entries |-> c.ret]
        /\ UNCHANGED <<txn, clock, LAST_REQUEST_TIME, scr, requests, origin, ana, analyses, now, ticks, tzOffset, apiKey, env, baseUrl, acq, started, sets>>

\* POST /cache/clear/{cache_type}
clear_cache(cache_type, fault) ==
    IF ~ValidCacheType(cache_type)
    THEN /\ resp' = [op |-> "clear", cache_type |-> cache_type, status |-> 400]
         /\ UNCHANGED <<txn, clock, LAST_REQUEST_TIME, scr, requests, origin, ana, analyses, store, written, now, ticks, tzOffset, apiKey, env, baseUrl, acq, started, sets>>
    ELSE LET c == clear_cache_by_pattern(store, cache_type, fault)
         IN  /\ store' = c.db
             /\ written' = WrittenKept(c.db)
             /\ resp' = IF c.raised # "none"
                        THEN [op |-> "clear", cache_type |-> cache_type, status |-> 500]
                        ELSE [op |-> "clear", cache_type |-> cache_type, status |-> 200,
                              deleted_entries |-> c.ret]
             /\ UNCHANGED <<txn, clock, LAST_REQUEST_TIME, scr, requests, origin, ana, analyses, now, ticks, tzOffset, apiKey, env, baseUrl, acq, started, sets>>

\* GET /health/cache
cache_health(fault) ==
    LET r == get_cache_stats(store, fault)
    IN  /\ resp' = IF r.raised # "none"
                   THEN [op |-> "stats", status |-> 500]
                   ELSE [op |-> "stats", status |-> 200, stats |-> r.ret]
        /\ UNCHANGED <<txn, clock, LAST_REQUEST_TIME, scr, requests, origin, ana, analyses, store, written, now, ticks, tzOffset, apiKey, env, baseUrl, acq, started, sets>>

\* ------------------------------------------- direct cache-manager calls

\* Values a client hands to set_cached.
Payloads == {Dict([transcript |-> Str(t)]) : t \in Texts}

\* A value json.dumps refuses.
Unserializable == Dict([transcript |-> [t |-> "bytes"]])

\* A value json.dumps accepts and writes as an object holding an array: a
\* dict whose segments are a tuple.
TuplePayload ==
    Dict([transcript |-> Str(<<"alpha">>),
          segments |-> PyTuple(<<Str(<<"alpha">>)>>)])

\* set_cached(key, video_id, cache_type, value, None, ttl_hours), the key
\* derived from the same video_id and cache_type.
CallSetCached(video_id, cache_type, value, ttl_hours, fault) ==
    /\ sets < MaxSets
    /\ sets' = sets + 1
    /\ LET key == GenerateCacheKey(video_id, cache_type, None)
           r == set_cached(store, key, video_id, cache_type, value, None, ttl_hours, now, fault)
       IN  /\ store' = r.db
           /\ written' = IF r.ret THEN Written(r.db, key, value) ELSE WrittenKept(r.db)
           /\ resp' = [op |-> "set", ret |-> PyBool(r.ret), raised |-> r.raised]
    /\ UNCHANGED <<txn, clock, LAST_REQUEST_TIME, scr, requests, origin, ana, analyses, now, ticks, tzOffset, apiKey, env, baseUrl, acq, started>>

\* get_cached(key), as every caller writes it: ttl_hours is left to its default.
CallGetCached(key, fault) ==
    LET r == get_cached(store, key, DefaultTtlHours, now, tzOffset, fault)
    IN  /\ store' = r.db
        /\ written' = WrittenKept(r.db)
        /\ resp' = [op |-> "get", ret |-> r.ret, raised |-> r.raised]
        /\ UNCHANGED <<txn, clock, LAST_REQUEST_TIME, scr, requests, origin, ana, analyses, now, ticks, tzOffset, apiKey, env, baseUrl, acq, started, sets>>

\* delete_cached(key)
CallDeleteCached(key, fault) ==
    LET r == delete_cached(store, key, fault)
    IN  /\ store' = r.db
        /\ written' = WrittenKept(r.db)
        /\ resp' = [op |-> "delete", ret |-> PyBool(r.ret), raised |-> r.raised]
        /\ UNCHANGED <<txn, clock, LAST_REQUEST_TIME, scr, requests, origin, ana, analyses, now, ticks, tzOffset, apiKey, env, baseUrl, acq, started, sets>>

\* A row's value column is damaged in the database file.
CorruptRow(key) ==
    /\ store[key].present
    /\ store[key].value # Corrupt
    /\ store' = [store EXCEPT ![key].value = Corrupt]
    /\ UNCHANGED <<txn, clock, LAST_REQUEST_TIME, scr, requests, origin, ana, analyses, written, now, ticks, tzOffset, apiKey, env, baseUrl, acq, started, sets, resp>>

\* ------------------------------------- set_cached on its own connection

\* set_cached step by step, each call on the connection it opens: connect,
\* execute (the implicit BEGIN and the INSERT OR REPLACE, which need the
\* write lock of the database file) and commit.

TxnIdle == [pc |-> "idle"]

\* A write that keeps the ttl_hours of the row it finds.
InsertOrMerge(old, new) ==
    IF old.present THEN [new EXCEPT !.ttl_hours = old.ttl_hours] ELSE new

\* INSERT OR REPLACE: the row found under the key is deleted and the new row
\* inserted.
InsertOrReplace(old, new) == new

\* The connections that hold the write lock: they have executed their INSERT
\* and not yet committed.
WriteLockHolders == {w \in Workers : txn[w].pc = "executed"}

\* sqlite3.connect(DB_PATH) and conn.cursor(), the arguments bound.
SetConnect(w, video_id, cache_type, value, ttl_hours) ==
    /\ txn[w].pc = "idle"
    /\ sets < MaxSets
    /\ sets' = sets + 1
    /\ txn' = [txn EXCEPT ![w] =
                 [pc |-> "connected",
                  key |-> GenerateCacheKey(video_id, cache_type, None),
                  video_id |-> video_id, cache_type |-> cache_type,
                  value |-> value, ttl_hours |-> ttl_hours]]
    /\ UNCHANGED <<store, written, origin, now, ticks, tzOffset, apiKey, env, baseUrl, acq,
                   started, ana, analyses, resp, clock, LAST_REQUEST_TIME, scr, requests>>

\* cursor.execute: the lock is free and the row is written in the
\* transaction, created_at taking CURRENT_TIMESTAMP.
SetExecute(w) ==
    /\ txn[w].pc = "connected"
    /\ WriteLockHolders = {}
    /\ txn' = [txn EXCEPT ![w] =
                 [pc |-> "executed", key |-> txn[w].key,
                  row |-> Row(txn[w].video_id, txn[w].cache_type, JsonDumps(txn[w].value),
                              None, txn[w].ttl_hours, now),
                  value |-> txn[w].value]]
    /\ UNCHANGED <<store, written, origin, now, ticks, tzOffset, apiKey, env, baseUrl, acq,
                   started, sets, ana, analyses, resp, clock, LAST_REQUEST_TIME, scr, requests>>

\* cursor.execute: another connection held the lock for the whole busy
\* timeout; sqlite3.OperationalError (database is locked) is caught and
\* set_cached returns False.
SetBusy(w) ==
    /\ txn[w].pc = "connected"
    /\ WriteLockHolders # {}
    /\ txn' = [txn EXCEPT ![w] = TxnIdle]
    /\ resp' = [op |-> "set", ret |-> PyBool(FALSE), raised |-> "none"]
    /\ UNCHANGED <<store, written, origin, now, ticks, tzOffset, apiKey, env, baseUrl, acq,
                   started, sets, ana, analyses, clock, LAST_REQUEST_TIME, scr, requests>>

\* conn.commit(), conn.close() and return True.
SetCommit(w) ==
    /\ txn[w].pc = "executed"
    /\ store' = [store EXCEPT ![txn[w].key] = InsertOrReplace(store[txn[w].key], txn[w].row)]
    /\ written' = [written EXCEPT ![txn[w].key] = txn[w].value]
    /\ txn' = [txn EXCEPT ![w] = TxnIdle]
    /\ resp' = [op |-> "set", ret |-> PyBool(TRUE), raised |-> "none"]
    /\ UNCHANGED <<origin, now, ticks, tzOffset, apiKey, env, baseUrl, acq,
                   started, sets, ana, analyses, clock, LAST_REQUEST_TIME, scr, requests>>

\* ------------------------------------ get_cached on its own connections

\* get_cached step by step: the SELECT on one connection, which is closed
\* before the expiry test, and for an expired row the DELETE of
\* delete_cached on a second connection.

\* The SELECT, fetchone, close and the expiry test.
GetSelect(w, key) ==
    /\ txn[w].pc = "idle"
    /\ LET row == store[key]
       IN  IF ~row.present
           THEN /\ resp' = [op |-> "get", ret |-> None, raised |-> "none"]
                /\ UNCHANGED txn
           ELSE IF ExpiredOnRead(row, DefaultTtlHours, now, tzOffset)
           THEN /\ txn' = [txn EXCEPT ![w] = [pc |-> "expired", key |-> key]]
                /\ UNCHANGED resp
           ELSE /\ resp' = [op |-> "get", ret |-> JsonLoads(row.value), raised |-> "none"]
                /\ UNCHANGED txn
    /\ UNCHANGED <<store, written, origin, now, ticks, tzOffset, apiKey, env, baseUrl, acq,
                   started, sets, ana, analyses, clock, LAST_REQUEST_TIME, scr, requests>>

\* delete_cached(key): DELETE FROM cache WHERE key = ?, commit, and get_cached
\* returns None.
GetDelete(w) ==
    /\ txn[w].pc = "expired"
    /\ WriteLockHolders = {}
    /\ LET d == DeleteCached(store, txn[w].key)
       IN  /\ store' = d.db
           /\ written' = WrittenKept(d.db)
    /\ txn' = [txn EXCEPT ![w] = TxnIdle]
    /\ resp' = [op |-> "get", ret |-> None, raised |-> "none"]
    /\ UNCHANGED <<origin, now, ticks, tzOffset, apiKey, env, baseUrl, acq,
                   started, sets, ana, analyses, clock, LAST_REQUEST_TIME, scr, requests>>

\* The DELETE finds the file locked for the whole busy timeout: delete_cached
\* returns False and get_cached returns None.
GetDeleteBusy(w) ==
    /\ txn[w].pc = "expired"
    /\ WriteLockHolders # {}
    /\ txn' = [txn EXCEPT ![w] = TxnIdle]
    /\ resp' = [op |-> "get", ret |-> None, raised |-> "none"]
    /\ UNCHANGED <<store, written, origin, now, ticks, tzOffset, apiKey, env, baseUrl, acq,
                   started, sets, ana, analyses, clock, LAST_REQUEST_TIME, scr, requests>>

\* ------------------------------- get_cache_stats statement by statement

\* The SELECTs of get_cache_stats in their order, named by the field of the
\* result each one fills (the SUM of the value lengths is left out).  Each is
\* a statement of its own outside any transaction and reads the table as it
\* is when the statement runs.
StatsQueries == <<"total_entries", "transcripts", "llm_analyses", "oldest_entry", "newest_entry">>

\* The next SELECT of the call is executed and its row fetched; the first
\* one follows sqlite3.connect.
StatsSelect(w) ==
    /\ txn[w].pc \in {"idle", "stats"}
    /\ LET got == IF txn[w].pc = "idle" THEN <<>> ELSE txn[w].got
       IN  /\ Len(got) < Len(StatsQueries)
           /\ txn' = [txn EXCEPT ![w] =
                        [pc |-> "stats",
                         got |-> Append(got, GetCacheStats(store).ret[StatsQueries[Len(got) + 1]])]]
    /\ UNCHANGED <<store, written, origin, now, ticks, tzOffset, apiKey, env, baseUrl, acq,
                   started, sets, ana, analyses, resp, clock, LAST_REQUEST_TIME, scr, requests>>

\* conn.close() and the return of the dictionary, answered by GET /health/cache.
StatsReturn(w) ==
    /\ txn[w].pc = "stats"
    /\ Len(txn[w].got) = Len(StatsQueries)
    /\ resp' = [op |-> "stats", status |-> 200,
                stats |-> [status |-> "Connected",
                           total_entries |-> txn[w].got[1],
                           transcripts |-> txn[w].got[2],
                           llm_analyses |-> txn[w].got[3],
                           oldest_entry |-> txn[w].got[4],
                           newest_entry |-> txn[w].got[5]]]
    /\ txn' = [txn EXCEPT ![w] = TxnIdle]
    /\ UNCHANGED <<store, written, origin, now, ticks, tzOffset, apiKey, env, baseUrl, acq,
                   started, sets, ana, analyses, clock, LAST_REQUEST_TIME, scr, requests>>

\* --------------------------------- the rate limit of the fallback scraper

\* Times are in half seconds.  MIN_DELAY_BETWEEN_REQUESTS is 2 seconds and
\* random.uniform(0.5, 1.5) is a jitter of one to three half seconds.
MIN_DELAY_BETWEEN_REQUESTS == 4
Jitters == {1, 2, 3}
MaxJitter == 3

\* time.time() at the start is far from LAST_REQUEST_TIME = 0: not less than
\* the minimum delay.
ClockStart == MIN_DELAY_BETWEEN_REQUESTS

ScrIdle == [pc |-> "idle"]

\* A call that does not wait for the minimum delay.
WaitTimeNone(time_since_last_request) == 0

\* wait_time, 0 when the test of the if fails.
WaitTime(time_since_last_request) ==
    IF time_since_last_request < MIN_DELAY_BETWEEN_REQUESTS
    THEN MIN_DELAY_BETWEEN_REQUESTS - time_since_last_request
    ELSE 0

\* The calls that have not yet called the scraper.
ScrWaiting == {w \in Workers : scr[w].pc \in {"sleep", "jitter", "stamp"}}

\* _call from its first line to its first time.sleep: current_time and
\* LAST_REQUEST_TIME are read, and the call sleeps for wait_time or, without
\* one, for its jitter.
ScrEnter(w) ==
    /\ scr[w].pc = "idle"
    /\ Len(requests) + Cardinality(ScrWaiting) < MaxScr
    /\ clock + MIN_DELAY_BETWEEN_REQUESTS + MaxJitter <= MaxClock
    /\ LET current_time == clock
           time_since_last_request == current_time - LAST_REQUEST_TIME
           wait_time == WaitTime(time_since_last_request)
       IN  IF wait_time > 0
           THEN scr' = [scr EXCEPT ![w] = [pc |-> "sleep", wake |-> clock + wait_time]]
           ELSE \E jitter \in Jitters :
                  scr' = [scr EXCEPT ![w] = [pc |-> "jitter", wake |-> clock + jitter]]
    /\ UNCHANGED <<store, written, origin, now, ticks, tzOffset, apiKey, env, baseUrl, acq,
                   started, sets, ana, analyses, resp, txn, clock, LAST_REQUEST_TIME, requests>>

\* time.sleep(wait_time) returns; the jitter is drawn and slept.
ScrWake(w) ==
    /\ scr[w].pc = "sleep"
    /\ clock >= scr[w].wake
    /\ \E jitter \in Jitters :
         scr' = [scr EXCEPT ![w] = [pc |-> "jitter", wake |-> clock + jitter]]
    /\ UNCHANGED <<store, written, origin, now, ticks, tzOffset, apiKey, env, baseUrl, acq,
                   started, sets, ana, analyses, resp, txn, clock, LAST_REQUEST_TIME, requests>>

\* time.sleep(jitter) returns and time.time() is called; its value is not yet
\* stored in the global.
ScrStamp(w) ==
    /\ scr[w].pc = "jitter"
    /\ clock >= scr[w].wake
    /\ scr' = [scr EXCEPT ![w] = [pc |-> "stamp", t |-> clock]]
    /\ UNCHANGED <<store, written, origin, now, ticks, tzOffset, apiKey, env, baseUrl, acq,
                   started, sets, ana, analyses, resp, txn, clock, LAST_REQUEST_TIME, requests>>

\* The value is stored in LAST_REQUEST_TIME and YouTubeTranscriptApi().fetch
\* is called.
ScrStore(w) ==
    /\ scr[w].pc = "stamp"
    /\ LAST_REQUEST_TIME' = scr[w].t
    /\ requests' = Append(requests, clock)
    /\ scr' = [scr EXCEPT ![w] = [pc |-> "fetch"]]
    /\ UNCHANGED <<store, written, origin, now, ticks, tzOffset, apiKey, env, baseUrl, acq,
                   started, sets, ana, analyses, resp, txn, clock>>

\* fetch returns or raises, and _call returns the text or the error text.
ScrReturn(w, o) ==
    /\ scr[w].pc = "fetch"
    /\ scr' = [scr EXCEPT ![w] = ScrIdle]
    /\ resp' = [op |-> "scrape", ret |-> _fetch_via_youtube_transcript_api(o)]
    /\ UNCHANGED <<store, written, origin, now, ticks, tzOffset, apiKey, env, baseUrl, acq,
                   started, sets, ana, analyses, txn, clock, LAST_REQUEST_TIME, requests>>

\* Half a second passes.  The instructions of a call take no time of their
\* own: time passes while some call sleeps or waits for the scraper (a call
\* between two of its instructions is then held up by the scheduler), or
\* while no call runs; a sleep returns when its time is up.
ClockTick ==
    /\ clock < MaxClock
    /\ \A w \in Workers : scr[w].pc \in {"sleep", "jitter"} => clock < scr[w].wake
    /\ \/ \E w \in Workers : scr[w].pc \in {"sleep", "jitter", "fetch"}
       \/ \A w \in Workers : scr[w].pc = "idle"
    /\ clock' = clock + 1
    /\ UNCHANGED <<store, written, origin, now, ticks, tzOffset, apiKey, env, baseUrl, acq,
                   started, sets, ana, analyses, resp, txn, LAST_REQUEST_TIME, scr, requests>>

\* A call made while no other call of the process is running.
ScrEnterAlone(w) ==
    /\ \A u \in Workers : scr[u].pc = "idle"
    /\ ScrEnter(w)

\* ------------------------------------------------------- specification

\* The video a specification of a single video is about.
FaultVideo == <<"v1">>
FaultKeys == {GenerateCacheKey(FaultVideo, c, None) : c \in CacheTypes}

Init ==
    /\ store = [k \in AllKeys |-> NoRow]
    /\ written = [k \in AllKeys |-> None]
    /\ origin = [k \in AllKeys |-> None]
    /\ now = 0
    /\ ticks = 0
    /\ tzOffset \in TzOffsets
    /\ apiKey \in ApiKeys
    /\ \E c \in EnvConfigs : env = c[1] /\ baseUrl = c[2]
    /\ acq = [w \in Workers |-> Idle]
    /\ started = 0
    /\ sets = 0
    /\ ana = [w \in Workers |-> AnaIdle]
    /\ analyses = 0
    /\ resp = [op |-> "none"]
    /\ txn = [w \in Workers |-> TxnIdle]
    /\ clock = ClockStart
    /\ LAST_REQUEST_TIME = 0
    /\ scr = [w \in Workers |-> ScrIdle]
    /\ requests = <<>>

Next ==
    \/ \E w \in Workers, v \in Videos : AcqStart(w, v, "none")
    \/ \E w \in Workers, t \in ProviderValues : AcqProviderReturn(w, t, "none")
    \/ \E d \in TickSteps : Tick(d)

\* The transcript acquisition chain over a cache that works, under every
\* configuration.
Spec == Init /\ [][Next]_vars

\* Every provider call that was sent returns or times out.
AcquisitionFairSpec ==
    /\ Spec
    /\ \A w \in Workers : WF_vars(\E t \in ProviderValues : AcqProviderReturn(w, t, "none"))

OutageNext ==
    \/ \E w \in Workers, v \in Videos : AcqStart(w, v, "io_error")
    \/ \E w \in Workers, t \in ProviderValues : AcqProviderReturn(w, t, "io_error")
    \/ \E d \in TickSteps : Tick(d)

\* The transcript acquisition chain while the database file cannot be used:
\* every get_cached and every set_cached of an acquisition fails.
OutageSpec == Init /\ [][OutageNext]_vars

\* The cache manager under the calls of its clients and of the administrative
\* routes.  It reads neither the API key nor the environment.
CacheInit ==
    /\ Init
    /\ apiKey = None
    /\ env = <<"production">>
    /\ baseUrl = CloudUrl

CacheNext ==
    \/ \E v \in Videos, c \in CacheTypes, value \in Payloads, ttl \in TtlChoices :
            CallSetCached(v, c, value, ttl, "none")
    \/ \E k \in Keys : CallGetCached(k, "none")
    \/ \E k \in Keys : CallDeleteCached(k, "none")
    \/ cleanup_cache("none")
    \/ \E c \in CacheTypes \cup {"comments"} : clear_cache(c, "none")
    \/ \E d \in TickSteps : Tick(d)

\* The host keeps UTC.
AnalysisInit == CacheInit /\ tzOffset = 0

AnalysisNext ==
    \/ \E w \in Workers, v \in Videos, i \in AnalyzeInputs :
            AnalyzeStart(w, v, i.transcript, i.comments, "none")
    \/ \E w \in Workers, out \in AnalyzerOutputs : AnalyzeReturn(w, out, "none")

\* The analysis of a video over a cache that works, while no row has aged.
AnalysisSpec == AnalysisInit /\ [][AnalysisNext]_vars

AgedAnalysisNext ==
    \/ \E w \in Workers, i \in AnalyzeInputs :
            AnalyzeStart(w, FaultVideo, i.transcript, i.comments, "none")
    \/ \E w \in Workers, out \in AnalyzerOutputs : AnalyzeReturn(w, out, "none")
    \/ \E d \in TickSteps : Tick(d)

\* The analyses of one video over a cache that works, rows aging.
AgedAnalysisSpec == CacheInit /\ [][AgedAnalysisNext]_vars

VideoAnalysisNext ==
    \/ \E w \in Workers, i \in AnalyzeInputs :
            AnalyzeStart(w, FaultVideo, i.transcript, i.comments, "none")
    \/ \E w \in Workers, out \in AnalyzerOutputs : AnalyzeReturn(w, out, "none")

\* The analyses of one video over a cache that works, while no row has aged.
VideoAnalysisSpec == AnalysisInit /\ [][VideoAnalysisNext]_vars

\* The host keeps UTC.
EntryInit == CacheInit /\ tzOffset = 0

StoreFaultNext ==
    \/ \E c \in CacheTypes, f \in StoreFaults,
          value \in {Dict([transcript |-> Str(<<"alpha">>)]), Unserializable} :
            CallSetCached(FaultVideo, c, value, DefaultTtlHours, f)
    \/ \E k \in FaultKeys, f \in StoreFaults : CallGetCached(k, f)
    \/ \E k \in FaultKeys, f \in StoreFaults : CallDeleteCached(k, f)
    \/ \E f \in StoreFaults : cleanup_cache(f)
    \/ \E c \in CacheTypes, f \in StoreFaults : clear_cache(c, f)
    \/ \E f \in StoreFaults : cache_health(f)
    \/ \E k \in FaultKeys : CorruptRow(k)
    \/ \E d \in TickSteps : Tick(d)

\* The cache manager of a host on UTC on a database file that can fail under
\* any call and whose rows can be damaged, one payload being written.
StoreFaultSpec == EntryInit /\ [][StoreFaultNext]_vars

EntryNext ==
    \/ \E value \in Payloads \cup {Unserializable}, ttl \in TtlChoices, f \in StoreFaults :
            CallSetCached(FaultVideo, "transcript", value, ttl, f)
    \/ \E f \in StoreFaults : CallGetCached(GenerateCacheKey(FaultVideo, "transcript", None), f)
    \/ \E f \in StoreFaults : CallDeleteCached(GenerateCacheKey(FaultVideo, "transcript", None), f)
    \/ \E f \in StoreFaults : cleanup_cache(f)
    \/ \E c \in CacheTypes, f \in StoreFaults : clear_cache(c, f)
    \/ \E f \in StoreFaults : cache_health(f)
    \/ \E d \in TickSteps : Tick(d)

\* Every operation of the cache manager on the transcript row of one video,
\* on a database file that can fail under any call.
EntrySpec == EntryInit /\ [][EntryNext]_vars

EmptyInputNext ==
    \/ \E w \in Workers, i \in EmptyKeyInputs :
            AnalyzeStart(w, FaultVideo, i.transcript, i.comments, "none")
    \/ \E w \in Workers, out \in AnalyzerOutputs : AnalyzeReturn(w, out, "none")

\* Analyses of one video with and without input, over a cache that works,
\* while no row has aged.
EmptyInputSpec == AnalysisInit /\ [][EmptyInputNext]_vars

\* The cache manager on a database file that works.
CacheSpec == CacheInit /\ [][CacheNext]_vars

\* The tables an earlier run of the process can have left in the database
\* file: for each key no row, or a row written at hour 0.
StoredTables ==
    LET rowOf(k, ttl) ==
            LET vc == CHOOSE vc \in Videos \X CacheTypes :
                          k = GenerateCacheKey(vc[1], vc[2], None)
            IN  Row(vc[1], vc[2], JsonDumps(Dict([transcript |-> Str(<<"alpha">>)])),
                    None, ttl, 0)
    IN  {[k \in AllKeys |->
            IF k \in Keys /\ f[k] # 0 THEN rowOf(k, f[k]) ELSE NoRow] :
         f \in [Keys -> {0} \cup TtlChoices]}

AdminInit ==
    /\ store \in StoredTables
    /\ written = [k \in AllKeys |->
                    IF store[k].present THEN JsonLoads(store[k].value) ELSE None]
    /\ origin = [k \in AllKeys |-> None]
    /\ now = 0
    /\ ticks = 0
    /\ tzOffset = 0
    /\ apiKey = None
    /\ env = <<"production">>
    /\ baseUrl = CloudUrl
    /\ acq = [w \in Workers |-> Idle]
    /\ started = 0
    /\ sets = 0
    /\ ana = [w \in Workers |-> AnaIdle]
    /\ analyses = 0
    /\ resp = [op |-> "none"]
    /\ txn = [w \in Workers |-> TxnIdle]
    /\ clock = ClockStart
    /\ LAST_REQUEST_TIME = 0
    /\ scr = [w \in Workers |-> ScrIdle]
    /\ requests = <<>>

AdminNext ==
    \/ cleanup_cache("none")
    \/ \E c \in CacheTypes \cup {"comments"} : clear_cache(c, "none")
    \/ \E ttl \in TtlChoices :
            CallSetCached(FaultVideo, "transcript", Dict([transcript |-> Str(<<"beta">>)]),
                          ttl, "none")
    \/ \E d \in TickSteps : Tick(d)

\* The administrative routes on a database file that works and that holds
\* the rows of an earlier run.
AdminSpec == AdminInit /\ [][AdminNext]_vars

\* The worker that serves the requests of search_all.
SearchWorker == "w1"

\* The host keeps UTC; every configuration of keys and environment.
SearchInit == Init /\ tzOffset = 0

SearchNext ==
    \/ SearchTranscript(SearchWorker, FaultVideo)
    \/ \E t \in ProviderValues : AcqProviderReturn(SearchWorker, t, "none")
    \/ \E c \in VideoComments : SearchAnalyze(SearchWorker, c)
    \/ \E out \in AnalyzerOutputs : AnalyzeReturn(SearchWorker, out, "none")
    \/ SearchRespond(SearchWorker)

\* Requests of search_all one after the other, each finding the same one
\* video, over a cache that works.
SearchSpec == SearchInit /\ [][SearchNext]_vars

RaceNext ==
    \/ \E w \in Workers, value \in Payloads, ttl \in TtlChoices :
            SetConnect(w, FaultVideo, "transcript", value, ttl)
    \/ \E w \in Workers : SetExecute(w)
    \/ \E w \in Workers : SetBusy(w)
    \/ \E w \in Workers : SetCommit(w)
    \/ \E d \in TickSteps : Tick(d)

\* Workers that call set_cached for the transcript of one video at the same
\* time, each on its own connection to the database file.
RaceSpec == CacheInit /\ [][RaceNext]_vars

LazyEvictionNext ==
    \/ \E w \in Workers, value \in Payloads :
            SetConnect(w, FaultVideo, "transcript", value, DefaultTtlHours)
    \/ \E w \in Workers : SetExecute(w)
    \/ \E w \in Workers : SetBusy(w)
    \/ \E w \in Workers : SetCommit(w)
    \/ \E w \in Workers : GetSelect(w, GenerateCacheKey(FaultVideo, "transcript", None))
    \/ \E w \in Workers : GetDelete(w)
    \/ \E w \in Workers : GetDeleteBusy(w)
    \/ \E d \in TickSteps : Tick(d)

\* Workers that call get_cached and set_cached for the transcript of one
\* video at the same time, each call on its own connections, on a host that
\* keeps UTC.
LazyEvictionSpec == EntryInit /\ [][LazyEvictionNext]_vars

StatsNext ==
    \/ \E w \in Workers : StatsSelect(w)
    \/ \E w \in Workers : StatsReturn(w)
    \/ \E c \in CacheTypes :
            CallSetCached(FaultVideo, c, Dict([transcript |-> Str(<<"alpha">>)]),
                          DefaultTtlHours, "none")
    \/ \E k \in FaultKeys : CallDeleteCached(k, "none")
    \/ \E c \in CacheTypes : clear_cache(c, "none")

\* Workers that ask for the statistics while others set, delete and clear
\* rows of one video, on a host that keeps UTC.
StatsSpec == EntryInit /\ [][StatsNext]_vars

\* A host that keeps UTC, in the cloud, with a key for supadata.ai.
PipelineInit ==
    /\ Init
    /\ tzOffset = 0
    /\ apiKey = Str(<<"sk-1">>)
    /\ env = <<"production">>
    /\ baseUrl = CloudUrl

\* What the pipeline hands to analyze_with_llm here: the transcript it
\* found and no comment, or no transcript and one comment.
PipelineInputs ==
    { [transcript |-> Str(<<"alpha">>), comments |-> <<>>],
      [transcript |-> None, comments |-> << <<"b">> >>] }

\* The analyzer raises or answers with an analysis in a ```json fence.
PipelineOutputs == {o \in AnalyzerOutputs : o.kind = "raises" \/ o.fence = "json"}

\* supadata.ai times out or answers with the transcript.
PipelineResponses ==
    {r \in SupadataResponses :
        \/ r.kind = "timeout"
        \/ r.kind = "http" /\ r.status = 200
             /\ r.body = [j |-> "object", m |-> [content |-> [j |-> "string", s |-> <<"alpha">>]]]}

\* One worker serves the acquisitions and the other the analyses.
Acquirer == "w1"
Analyst == "w2"

PipelineNext ==
    \/ \E v \in Videos : AcqStart(Acquirer, v, "none")
    \/ \E r \in PipelineResponses :
            AcqProviderReturn(Acquirer, _fetch_via_supdata_api(r), "none")
    \/ \E i \in PipelineInputs :
            AnalyzeStart(Analyst, FaultVideo, i.transcript, i.comments, "none")
    \/ \E out \in PipelineOutputs : AnalyzeReturn(Analyst, out, "none")
    \/ Tick(DefaultTtlHours)

\* Acquisitions of two videos and analyses of the first, one worker
\* acquiring while the other analyses, in every interleaving, over a cache
\* that works, rows aging.
PipelineSpec == PipelineInit /\ [][PipelineNext]_vars

SerialScraperNext ==
    \/ \E w \in Workers : ScrEnterAlone(w)
    \/ \E w \in Workers : ScrWake(w)
    \/ \E w \in Workers : ScrStamp(w)
    \/ \E w \in Workers : ScrStore(w)
    \/ \E w \in Workers, o \in ScraperOutcomes : ScrReturn(w, o)
    \/ ClockTick

\* Calls of the fallback scraper that do not overlap in time.
SerialScraperSpec == CacheInit /\ [][SerialScraperNext]_vars

ScraperNext ==
    \/ \E w \in Workers : ScrEnter(w)
    \/ \E w \in Workers : ScrWake(w)
    \/ \E w \in Workers : ScrStamp(w)
    \/ \E w \in Workers : ScrStore(w)
    \/ \E w \in Workers, o \in ScraperOutcomes : ScrReturn(w, o)
    \/ ClockTick

\* Calls of the fallback scraper from the threads of the pool, in every
\* interleaving.
ScraperSpec == CacheInit /\ [][ScraperNext]_vars

\* The scheduler runs every thread that can take a step, and time passes.
ScraperFairSpec ==
    /\ ScraperSpec
    /\ WF_vars(ClockTick)
    /\ \A w \in Workers : WF_vars(ScrWake(w) \/ ScrStamp(w) \/ ScrStore(w))

ProviderFailureNext ==
    \/ \E w \in Workers, v \in Videos : AcqStart(w, v, "none")
    \/ \E w \in Workers, r \in FailureResponses :
            AcqProviderReturn(w, _fetch_via_supdata_api(r), "none")
    \/ \E d \in TickSteps : Tick(d)

\* The transcript acquisition chain while every request to the provider
\* fails, in one way or another, under every configuration.
ProviderFailureSpec == Init /\ [][ProviderFailureNext]_vars

EmptyAnswerNext ==
    \/ \E w \in Workers, v \in Videos : AcqStart(w, v, "none")
    \/ \E w \in Workers, r \in EmptyResponses :
            AcqProviderReturn(w, _fetch_via_supdata_api(r), "none")
    \/ \E d \in TickSteps : Tick(d)

\* The transcript acquisition chain while the provider has no text for any
\* video, under every configuration.
EmptyAnswerSpec == Init /\ [][EmptyAnswerNext]_vars

RoundTripNext ==
    \/ \E c \in CacheTypes, value \in Payloads \cup {TuplePayload}, ttl \in TtlChoices :
            CallSetCached(FaultVideo, c, value, ttl, "none")
    \/ \E k \in FaultKeys : CallGetCached(k, "none")
    \/ \E k \in FaultKeys : CallDeleteCached(k, "none")
    \/ \E d \in TickSteps : Tick(d)

\* get_cached, set_cached and delete_cached of one video on a database file
\* that works, with values json.dumps accepts.
RoundTripSpec == CacheInit /\ [][RoundTripNext]_vars

FaultNext ==
    \/ \E c \in CacheTypes, value \in Payloads \cup {Unserializable}, f \in StoreFaults :
            CallSetCached(FaultVideo, c, value, DefaultTtlHours, f)
    \/ \E k \in FaultKeys, f \in StoreFaults : CallGetCached(k, f)
    \/ \E k \in FaultKeys, f \in StoreFaults : CallDeleteCached(k, f)
    \/ \E f \in StoreFaults : cleanup_cache(f)
    \/ \E c \in CacheTypes, f \in StoreFaults : clear_cache(c, f)
    \/ \E f \in StoreFaults : cache_health(f)
    \/ \E k \in FaultKeys : CorruptRow(k)
    \/ \E d \in TickSteps : Tick(d)

\* The cache manager on a database file that can fail under any call and
\* whose rows can be damaged.
FaultSpec == CacheInit /\ [][FaultNext]_vars

\* ================================================================ properties

TranscriptKey(v) == GenerateCacheKey(v, "transcript", None)

\* The specification's liveness of a row: now - createdAt <= ttlHours, both
\* on the UTC clock the row's created_at was taken from.
Live(row, utc) == row.present /\ utc - row.created_at <= row.ttl_hours

Range(f) == {f[i] : i \in DOMAIN f}

Last(seq) == seq[Len(seq)]

\* The acquisition missed the cache: it is past CacheCheck and did not end there.
CacheMiss(a) == a.pc # "idle" /\ ~(a.pc \in {"Success", "Raised"} /\ a.calls = <<>>)

\* C1: a get(key) made more than ttlHours hours after the row's createdAt
\* returns absent and leaves no row for the key, whatever ttlHours the row
\* was written with.
C1_ExpiredNeverReturned ==
    [][\A k \in Keys :
         (CallGetCached(k, "none") /\ store[k].present
            /\ now - store[k].created_at > store[k].ttl_hours)
         => (resp'.ret = None /\ ~store'[k].present)]_vars

\* C2: a get(key) made while now - createdAt <= ttlHours returns exactly the
\* payload handed to set and leaves the row in the table.
C2_LiveEntryServed ==
    [][\A k \in Keys :
         (CallGetCached(k, "none") /\ Live(store[k], now))
         => (resp'.ret = written[k] /\ store'[k] = store[k])]_vars

\* C3: an acquisition that ends in AllFailed returns absent and has written
\* nothing; no step of an acquisition other than the one that ends it in
\* Success inserts or replaces a row.
C3_ErrorsNeverCached ==
    /\ [](\A w \in Workers :
            acq[w].pc = "AllFailed" => (~acq[w].wrote /\ acq[w].result = None))
    /\ [][\A w \in Workers :
            (acq'[w] # acq[w] /\ acq'[w].pc # "Success")
            => \A k \in Keys : store'[k] = store[k] \/ ~store'[k].present]_vars

\* C3 witness: the secondary provider was called and failed, the acquisition
\* ended in AllFailed and the table holds no row for the video.
C3_Witness ==
    \E w \in Workers :
        /\ acq[w].pc = "AllFailed"
        /\ acq[w].calls = <<"SecondaryProviderAttempt">>
        /\ ~store[TranscriptKey(acq[w].vid)].present

\* C4: within one acquisition the providers are attempted in chain order, each
\* only after every earlier one failed or was skipped; a provider that returns
\* usable text ends the acquisition in Success with that text as the result,
\* and no later provider is invoked.
C4_PriorityFirstSuccessWins ==
    \A w \in Workers :
        LET a == acq[w]
        IN  /\ \A i, j \in DOMAIN a.calls :
                 i < j => Position(a.calls[i]) < Position(a.calls[j])
            /\ \A i \in DOMAIN a.calls : \A e \in 1..(Position(a.calls[i]) - 1) :
                 \/ \E h \in 1..(i - 1) : a.calls[h] = Chain[e]
                 \/ ~Entered(Chain[e], apiKey, IS_LOCAL_ENV(env, baseUrl))
            /\ a.wrote => a.pc = "Success"
            /\ (a.pc = "Success" /\ a.calls # <<>>) =>
                 /\ a.result \in ProviderResults(Last(a.calls))
                 /\ TranscriptCheck(a.result) = "usable"
            /\ (a.pc = "Success" /\ a.calls # <<>>
                  /\ Last(a.calls) = "SecondaryProviderAttempt") =>
                 "FallbackScraperAttempt" \notin Range(a.calls)

\* C4 witness: the secondary provider succeeded and its text is the result.
C4_Witness ==
    \E w \in Workers :
        /\ acq[w].pc = "Success"
        /\ acq[w].calls = <<"SecondaryProviderAttempt">>
        /\ acq[w].result = Str(<<"alpha">>)

\* C5: on a cache miss the primary provider (the YouTube Data API, whose key
\* the application requires at startup) is attempted first.
C5_PrimaryAttemptedFirst ==
    \A w \in Workers :
        CacheMiss(acq[w]) =>
            /\ acq[w].calls # <<>>
            /\ acq[w].calls[1] = "PrimaryProviderAttempt"

\* C6: in a local environment an acquisition does not end in AllFailed
\* without having invoked the fallback scraper.
C6_FallbackEnteredWhenLocal ==
    \A w \in Workers :
        (IS_LOCAL_ENV(env, baseUrl) /\ acq[w].pc = "AllFailed")
        => "FallbackScraperAttempt" \in Range(acq[w].calls)

\* C7: in a cloud environment no acquisition invokes the fallback scraper, and
\* an acquisition whose earlier states all missed or failed returns absent.
C7_NoFallbackInCloud ==
    ~IS_LOCAL_ENV(env, baseUrl) =>
        \A w \in Workers :
            /\ acq[w].pc # "FallbackScraperAttempt"
            /\ "FallbackScraperAttempt" \notin Range(acq[w].calls)
            /\ acq[w].pc = "AllFailed" => acq[w].result = None

\* C7 witness: in a cloud environment the cache missed, the secondary provider
\* failed and the acquisition ended in AllFailed.
C7_Witness ==
    /\ ~IS_LOCAL_ENV(env, baseUrl)
    /\ \E w \in Workers :
         /\ acq[w].pc = "AllFailed"
         /\ acq[w].calls = <<"SecondaryProviderAttempt">>

\* C8: without a secondary-provider API key (unset or empty) no acquisition
\* sends a request to the secondary provider; with a key, every acquisition
\* that missed the cache and got no transcript from the primary provider has
\* invoked it.
C8_SecondaryGatedOnKey ==
    \A w \in Workers :
        LET a == acq[w]
        IN  /\ ~Truthy(apiKey) =>
                 /\ a.pc # "SecondaryProviderAttempt"
                 /\ "SecondaryProviderAttempt" \notin Range(a.calls)
            /\ ( /\ Truthy(apiKey)
                 /\ CacheMiss(a)
                 /\ a.pc # "PrimaryProviderAttempt"
                 /\ ~(a.pc \in {"Success", "Raised"}
                        /\ Last(a.calls) = "PrimaryProviderAttempt") )
               => "SecondaryProviderAttempt" \in Range(a.calls)

\* C8 witness: the key is set but empty, the cache missed, and the acquisition
\* ended in AllFailed without any provider call.
C8_Witness ==
    /\ apiKey = Str(<<>>)
    /\ \E w \in Workers : acq[w].pc = "AllFailed" /\ acq[w].calls = <<>>

\* C9: an acquisition that starts while the working table holds a live row
\* for the video's transcript key returns the transcript text stored in it, invokes no
\* provider and writes nothing.
C9_CacheHitTerminal ==
    [][\A w \in Workers, v \in Videos :
         (AcqStart(w, v, "none") /\ Live(store[TranscriptKey(v)], now))
         => /\ acq'[w].pc = "Success"
            /\ acq'[w].result = DictGet(written[TranscriptKey(v)], "transcript")
            /\ acq'[w].calls = <<>>
            /\ ~acq'[w].wrote
            /\ store' = store]_vars

\* C10: on a working store, an acquisition that a provider ends in Success
\* leaves the row
\* (video, transcript, {transcript: text}, no fingerprint, ttl 24) under the
\* video's transcript key, and an acquisition for the video that starts within
\* 24 hours of such a row's createdAt is a cache hit returning the same text
\* without a provider call.
C10_WriteThroughThenHit ==
    [][\A w \in Workers :
         /\ ((\E t \in ProviderValues : AcqProviderReturn(w, t, "none"))
               /\ acq'[w].pc = "Success") =>
               /\ store'[TranscriptKey(acq[w].vid)] =
                     Row(acq[w].vid, "transcript",
                         JsonDumps(Dict([transcript |-> acq'[w].result])),
                         None, DefaultTtlHours, now)
               /\ acq'[w].wrote
         /\ \A v \in Videos :
               LET row == store[TranscriptKey(v)]
               IN  ( /\ AcqStart(w, v, "none")
                     /\ row.present
                     /\ row.cache_type = "transcript"
                     /\ row.ttl_hours = DefaultTtlHours
                     /\ now - row.created_at <= DefaultTtlHours )
                   => /\ acq'[w].pc = "Success"
                      /\ acq'[w].result = DictGet(JsonLoads(row.value), "transcript")
                      /\ acq'[w].calls = <<>>]_vars

\* C11: whatever the secondary provider call does (any status, a timeout, a
\* connection error, a body that is no JSON, or a body whose content is
\* missing, empty or no text), the acquisition ends with a transcript text or
\* with absent and raises nothing to its caller.
C11_NeverRaises ==
    \A w \in Workers :
        LET a == acq[w]
        IN  (a.calls # <<>> /\ Last(a.calls) = "SecondaryProviderAttempt")
            => /\ a.pc # "Raised"
               /\ a.pc = "Success" => (a.result.t = "str" /\ Truthy(a.result))
               /\ a.pc = "AllFailed" => a.result = None

\* C12: a failure of the store never leaves the cache manager.  Under an I/O
\* error get returns absent, set and delete return failure, the sweep and the
\* clear by category return 0 and the statistics report an error status, the
\* table being left as it was; a set of a payload that cannot be serialized
\* returns failure, a get of a damaged row returns absent; and none of the six
\* operations ever raises.
C12_FailuresNeverEscape ==
    /\ [](/\ resp.op \in {"get", "set", "delete"} => resp.raised = "none"
          /\ resp.op \in {"cleanup", "clear", "stats"} => resp.status # 500)
    /\ [][/\ \A k \in FaultKeys :
               /\ CallGetCached(k, "io_error") =>
                    (resp'.ret = None /\ store' = store)
               /\ (CallGetCached(k, "none") /\ store[k].present
                     /\ store'[k].present /\ store[k].value = Corrupt) =>
                    resp'.ret = None
               /\ CallDeleteCached(k, "io_error") =>
                    (resp'.ret = PyBool(FALSE) /\ store' = store)
          /\ \A c \in CacheTypes, value \in Payloads \cup {Unserializable} :
               /\ CallSetCached(FaultVideo, c, value, DefaultTtlHours, "io_error") =>
                    (resp'.ret = PyBool(FALSE) /\ store' = store)
               /\ clear_cache(c, "io_error") =>
                    (resp'.status = 200 /\ resp'.deleted_entries = 0 /\ store' = store)
          /\ \A c \in CacheTypes :
               CallSetCached(FaultVideo, c, Unserializable, DefaultTtlHours, "none") =>
                    (resp'.ret = PyBool(FALSE) /\ store' = store)
          /\ cleanup_cache("io_error") =>
               (resp'.status = 200 /\ resp'.deleted_entries = 0 /\ store' = store)
          /\ cache_health("io_error") =>
               (resp'.status = 200 /\ resp'.stats.status = "Error")]_vars

\* C12 witness: a set has failed and reported failure while a row written
\* earlier is still in the table.
C12_Witness ==
    /\ resp = [op |-> "set", ret |-> PyBool(FALSE), raised |-> "none"]
    /\ \E k \in FaultKeys : store[k].present

\* C13: on a store whose get reports absent and whose set reports failure, an
\* acquisition goes the way it goes on a working empty store: the cache check
\* is a miss, the first provider that returns usable text ends it in Success
\* with that text, a provider that fails advances it, and it ends in AllFailed
\* with absent only when no provider is left.
C13_CacheNotADependency ==
    [][\A w \in Workers :
         /\ \A v \in Videos :
              AcqStart(w, v, "io_error") =>
                 /\ store' = store
                 /\ acq'[w].pc = Advance(0, apiKey, IS_LOCAL_ENV(env, baseUrl))
                 /\ acq'[w].result = None
         /\ \A t \in ProviderValues :
              AcqProviderReturn(w, t, "io_error") =>
                 /\ store' = store
                 /\ TranscriptCheck(t) = "usable" =>
                      (acq'[w].pc = "Success" /\ acq'[w].result = t)
                 /\ TranscriptCheck(t) = "failed" =>
                      /\ acq'[w].pc = Advance(Position(acq[w].pc), apiKey,
                                              IS_LOCAL_ENV(env, baseUrl))
                      /\ acq'[w].result = None]_vars

\* C13 witness: the secondary provider's text was returned although the store
\* took no row for it.
C13_Witness ==
    \E w \in Workers :
        /\ acq[w].pc = "Success"
        /\ acq[w].calls = <<"SecondaryProviderAttempt">>
        /\ acq[w].result = Str(<<"beta">>)
        /\ ~acq[w].wrote
        /\ \A k \in Keys : ~store[k].present

\* C14: two analyze calls for one video with the same comments and two
\* different transcript texts derive two different keys; the analysis cached
\* by one is never what the other finds, and a call that caches its analysis
\* leaves every row under another key as it was.
C14_TranscriptChangeInvalidates ==
    /\ [](\A v \in Videos, i, j \in AnalyzeInputs :
            ( /\ i.transcript.t = "str" /\ j.transcript.t = "str"
              /\ i.transcript # j.transcript
              /\ i.comments = j.comments )
            => AnalysisKey(v, i.transcript, i.comments)
                 # AnalysisKey(v, j.transcript, j.comments))
    /\ [][\A w \in Workers :
            /\ \A v \in Videos, i \in AnalyzeInputs :
                 ( /\ AnalyzeStart(w, v, i.transcript, i.comments, "none")
                   /\ i.transcript.t = "str"
                   /\ ana'[w].pc = "Hit" )
                 => LET k == AnalysisKey(v, i.transcript, i.comments)
                    IN  /\ origin[k].video_id = v
                        /\ origin[k].comments = JoinSpaces(Slice(i.comments, 20))
                             => origin[k].transcript = i.transcript.s
                        /\ ana'[w].result = written[k]
            /\ \A out \in AnalyzerOutputs :
                 AnalyzeReturn(w, out, "none") =>
                    \A k \in AllKeys :
                       k # AnalysisKey(ana[w].vid, ana[w].transcript, ana[w].comments)
                       => store'[k] = store[k]]_vars

\* C14 witness: the analyses of transcript a and of transcript b of one video,
\* both without comments, are two rows with two different values.
C14_Witness ==
    LET ka == AnalysisKey(<<"v1">>, Str(<<"a">>), <<>>)
        kb == AnalysisKey(<<"v1">>, Str(<<"b">>), <<>>)
    IN  /\ store[ka].present
        /\ store[kb].present
        /\ store[ka].value # store[kb].value
        /\ \E w \in Workers : ana[w].pc = "Done" /\ ana[w].wrote

\* C15: a call of analyze that finds a cached analysis finds the one made for
\* the very input the analyzer would be handed now: two calls for one video
\* whose transcript or comments differ in what the analyzer is handed never
\* share a key.
C15_KeyTiedToExactInput ==
    [][\A w \in Workers, v \in Videos, i \in AnalyzeInputs :
         ( /\ AnalyzeStart(w, v, i.transcript, i.comments, "none")
           /\ ana'[w].pc = "Hit" )
         => origin[AnalysisKey(v, i.transcript, i.comments)]
              = AnalyzerInput(v, i.transcript, i.comments)]_vars

\* C16: a call of analyze that starts while the working table holds a live row
\* under the key of its inputs returns the analysis stored in that row, does
\* not invoke the analyzer and writes nothing.
C16_AnalysisHitTerminal ==
    [][\A w \in Workers, v \in Videos, i \in AnalyzeInputs :
         LET k == AnalysisKey(v, i.transcript, i.comments)
         IN  ( /\ AnalyzeStart(w, v, i.transcript, i.comments, "none")
               /\ Live(store[k], now) )
             => /\ ana'[w].pc = "Hit"
                /\ ana'[w].result = written[k]
                /\ ~ana'[w].invoked
                /\ ~ana'[w].wrote
                /\ store' = store]_vars

\* C17: a call of analyze with an empty or absent transcript and no comments
\* that misses the cache returns the empty result, never invokes the analyzer
\* and leaves the table as it was.
C17_EmptyInputShortCircuit ==
    [][\A w \in Workers, v \in Videos, i \in AnalyzeInputs :
         ( /\ AnalyzeStart(w, v, i.transcript, i.comments, "none")
           /\ i.transcript \in {None, Str(<<>>)}
           /\ i.comments = <<>>
           /\ ~store[AnalysisKey(v, i.transcript, i.comments)].present )
         => /\ ana'[w].pc = "Done"
            /\ ana'[w].result = Dict(<<>>)
            /\ ~ana'[w].invoked
            /\ ~ana'[w].wrote
            /\ store' = store]_vars

\* C17 witness: a call has returned the empty result without the analyzer
\* while another call's analysis is in the table.
C17_Witness ==
    /\ \E w \in Workers :
         /\ ana[w].pc = "Done"
         /\ ana[w].result = Dict(<<>>)
         /\ ~ana[w].invoked
    /\ \E k \in AnalysisKeys : store[k].present
    /\ \A v \in Videos :
         /\ ~store[AnalysisKey(v, Str(<<>>), <<>>)].present
         /\ ~store[AnalysisKey(v, None, <<>>)].present

\* C18: when the analyzer call raises or its reply cannot be parsed (it is no
\* JSON text once a ```json fence is removed), analyze raises to its caller,
\* returns no result and leaves the table exactly as it was.
C18_FailuresPropagateUncached ==
    [][\A w \in Workers, out \in AnalyzerOutputs :
         ( /\ AnalyzeReturn(w, out, "none")
           /\ \/ out.kind = "raises"
              \/ CleanJson(out).j = "invalid" )
         => /\ ana'[w].pc = "Raised"
            /\ ana'[w].result = None
            /\ ~ana'[w].wrote
            /\ store' = store]_vars

\* C18 witness: the analyzer was invoked, analyze raised and no row is in the
\* table.
C18_Witness ==
    /\ \E w \in Workers : ana[w].pc = "Raised" /\ ana[w].invoked
    /\ \A k \in AllKeys : ~store[k].present

\* C19: set replaces whatever row the key had by the row of the new payload,
\* and a get(key) made while now - createdAt <= ttlHours returns the payload of
\* the latest successful set of the key, not an earlier one and not a merge.
\* (The table holds at most one row per key by its PRIMARY KEY, which the
\* function store carries.)
C19_UpsertLatestServed ==
    /\ [][\A v \in Videos, c \in CacheTypes, value \in Payloads, ttl \in TtlChoices :
            CallSetCached(v, c, value, ttl, "none")
            => store'[GenerateCacheKey(v, c, None)]
                 = Row(v, c, JsonDumps(value), None, ttl, now)]_vars
    /\ [][\A k \in Keys :
            (CallGetCached(k, "none") /\ Live(store[k], now))
            => resp'.ret = written[k]]_vars

\* The value is made of what JSON has: dict, list, str, int and None.
RECURSIVE JsonNative(_)
JsonNative(x) ==
    CASE x.t = "tuple" -> FALSE
      [] x.t = "list" -> \A i \in DOMAIN x.items : JsonNative(x.items[i])
      [] x.t = "dict" -> \A k \in DOMAIN x.d : JsonNative(x.d[k])
      [] OTHER -> TRUE

\* The row of the key was written by a set and no time has passed since.
JustSet(k) == store[k].present /\ store[k].created_at = now

\* The steps of the round trip, the fourth excepted: get on a key without a
\* row returns absent; set returns success and leaves a row for the key;
\* delete returns success and leaves no row for the key.
RoundTripEnds ==
    /\ [][\A k \in FaultKeys :
            (CallGetCached(k, "none") /\ ~store[k].present)
            => (resp'.ret = None /\ store' = store)]_vars
    /\ [][\A c \in CacheTypes, value \in Payloads \cup {TuplePayload},
            ttl \in TtlChoices :
            CallSetCached(FaultVideo, c, value, ttl, "none")
            => /\ resp'.ret = PyBool(TRUE)
               /\ store'[GenerateCacheKey(FaultVideo, c, None)].present
               /\ written'[GenerateCacheKey(FaultVideo, c, None)] = value]_vars
    /\ [][\A k \in FaultKeys :
            CallDeleteCached(k, "none")
            => (resp'.ret = PyBool(TRUE) /\ ~store'[k].present)]_vars

\* C20 as stated: on a cache without a row for the key, get returns absent,
\* set returns success, the get that follows returns exactly the payload handed
\* to set, delete returns success and get returns absent again, for every key
\* and every payload json.dumps accepts.
C20_RoundTripExact ==
    /\ RoundTripEnds
    /\ [][\A k \in FaultKeys :
            (CallGetCached(k, "none") /\ JustSet(k))
            => (resp'.ret = written[k] /\ store' = store)]_vars

\* C20, amended: the same round trip, where the get that follows set returns
\* what json.loads makes of the text json.dumps wrote, which is exactly the
\* payload when the payload holds no tuple; a tuple comes back as a list.
C20_RoundTripThroughJson ==
    /\ RoundTripEnds
    /\ [][\A k \in FaultKeys :
            (CallGetCached(k, "none") /\ JustSet(k))
            => /\ resp'.ret = JsonLoads(JsonDumps(written[k]))
               /\ JsonNative(written[k]) => resp'.ret = written[k]
               /\ store' = store]_vars

\* C20 witness: a get right after a set has returned the payload that was
\* handed to set, the row still in the table.
C20_Witness ==
    /\ resp.op = "get"
    /\ resp.ret \in Payloads
    /\ \E k \in FaultKeys : JustSet(k) /\ written[k] = resp.ret

\* The rows of category c.
RowsOf(db, c) == {k \in DOMAIN db : db[k].present /\ db[k].cache_type = c}

\* C21: clearByCategory(c) deletes exactly the rows whose category is c,
\* returns their number and leaves every row of another category as it was.
C21_ClearExactlyCategory ==
    [][\A c \in CacheTypes :
         clear_cache(c, "none")
         => /\ \A k \in AllKeys :
                 store'[k] = IF k \in RowsOf(store, c) THEN NoRow ELSE store[k]
            /\ resp'.deleted_entries = Cardinality(RowsOf(store, c))]_vars

\* C21 witness: the clear of the transcripts deleted two rows and a row of
\* the analyses is still in the table.
C21_Witness ==
    /\ resp.op = "clear" /\ resp.status = 200
    /\ resp.cache_type = "transcript"
    /\ resp.deleted_entries = 2
    /\ RowsOf(store, "transcript") = {}
    /\ RowsOf(store, "llm_analysis") # {}

\* C22: sweepExpired deletes every row whose createdAt + ttlHours, the row's
\* own ttl, has passed, deletes no row that is still live, and returns the
\* number of rows it removed.
C22_SweepExactlyExpired ==
    [][cleanup_cache("none")
       => LET passed == {k \in AllKeys :
                           store[k].present
                           /\ store[k].created_at + store[k].ttl_hours < now}
          IN  /\ \A k \in AllKeys :
                   store'[k] = IF k \in passed THEN NoRow ELSE store[k]
              /\ \A k \in AllKeys : Live(store[k], now) => store'[k] = store[k]
              /\ resp'.deleted_entries = Cardinality(passed)]_vars

\* C22 witness: a sweep removed a row of ttl 1 and kept a row of ttl 24 that
\* was written at the same hour.
C22_Witness ==
    /\ resp.op = "cleanup" /\ resp.status = 200
    /\ resp.deleted_entries = 1
    /\ now = 2
    /\ \E k \in Keys : store[k].present /\ store[k].ttl_hours = 24
                         /\ store[k].created_at = 0

\* C23: POST /cache/clear/{category} with a category outside {transcript,
\* llm_analysis} is answered with a client error and deletes no row; with
\* a category of the two it clears the category and reports the number of
\* rows deleted.
C23_ClearValidatesCategory ==
    [][\A c \in CacheTypes \cup {"comments"} :
         clear_cache(c, "none")
         => IF c \in {"transcript", "llm_analysis"}
            THEN /\ resp'.status = 200
                 /\ resp'.cache_type = c
                 /\ resp'.deleted_entries = Cardinality(RowsOf(store, c))
                 /\ RowsOf(store', c) = {}
            ELSE /\ resp'.status = 400
                 /\ store' = store]_vars

\* C23 witness: a clear of the category comments was answered 400 while the
\* table held rows.
C23_Witness ==
    /\ resp.op = "clear" /\ resp.status = 400
    /\ resp.cache_type = "comments"
    /\ \E k \in Keys : store[k].present

\* The (video_id, cache_type, content_hash) tuples the program derives keys
\* from: no hash for a transcript, generate_content_hash of the content for
\* an analysis.
KeyTuples ==
    {<<v, c, None>> : v \in Videos, c \in CacheTypes}
    \cup {<<v, "llm_analysis", GenerateContentHash(Content(i.transcript, i.comments))>> :
            v \in Videos, i \in AnalyzeInputs \cup SearchInputs}

\* C24: the key is a function of (subjectId, category, contentFingerprint)
\* that gives different tuples different keys, and every row of the table
\* sits under the key of its own subject, category and fingerprint: the
\* table holds one row at most per tuple, and rows of different tuples are
\* different rows.
C24_KeySeparatesTuples ==
    /\ \A t1, t2 \in KeyTuples :
         GenerateCacheKey(t1[1], t1[2], t1[3]) = GenerateCacheKey(t2[1], t2[2], t2[3])
         <=> t1 = t2
    /\ \A k \in AllKeys :
         store[k].present
         => k = GenerateCacheKey(store[k].video_id, store[k].cache_type,
                                 store[k].content_hash)

\* C24 witness: the table holds the transcript of a video and two analyses of
\* the same video under different fingerprints.
C24_Witness ==
    \E v \in Videos : \E k1, k2 \in AllKeys :
        /\ store[TranscriptKey(v)].present
        /\ k1 # k2
        /\ store[k1].present /\ store[k1].video_id = v /\ store[k1].cache_type = "llm_analysis"
        /\ store[k2].present /\ store[k2].video_id = v /\ store[k2].cache_type = "llm_analysis"
        /\ store[k1].content_hash # store[k2].content_hash

\* C28: when get_video_transcript returned absent for the video, search_all
\* goes on to the analysis, which without comments returns the empty
\* analysis and never calls the analyzer; and unless the analysis itself
\* raised or returned a value that is no object, the request is answered
\* with the row of the video, its transcript field empty.
C28_MissingTranscriptNoError ==
    /\ [][(acq[SearchWorker].pc = "AllFailed" /\ SearchAnalyze(SearchWorker, <<>>))
          => /\ ana'[SearchWorker].pc = "Done"
             /\ ana'[SearchWorker].result = Dict(<<>>)
             /\ ~ana'[SearchWorker].invoked]_vars
    /\ [][(acq[SearchWorker].pc = "AllFailed" /\ SearchRespond(SearchWorker))
          => \/ ana[SearchWorker].pc = "Raised"
             \/ ana[SearchWorker].result.t # "dict"
             \/ /\ resp'.status = 200
                /\ Len(resp'.rows) = 1
                /\ resp'.rows[1].video_id = acq[SearchWorker].vid
                /\ resp'.rows[1].transcript_snippet = <<>>]_vars

\* C28 witness: a request was answered with a row whose transcript field is
\* empty and whose analysis, made from the comments alone, is there.
C28_Witness ==
    /\ resp.op = "search" /\ resp.status = 200
    /\ resp.rows[1].transcript_snippet = <<>>
    /\ resp.rows[1].llm_review_tone = Str(<<"positive">>)

\* C25: whatever the interleaving of the set calls of several workers, one
\* connection at most is between its INSERT and its commit; a row of the table
\* changes only by a commit, which puts under the key the row of that one
\* call (its payload, subject, category, fingerprint, ttlHours and createdAt)
\* and touches no other key: the row under a key is the row of the last call
\* that committed.
C25_ConcurrentSetsWholeRows ==
    /\ [](Cardinality(WriteLockHolders) <= 1)
    /\ [][\A w \in Workers :
            SetCommit(w)
            => /\ store'[txn[w].key] = txn[w].row
               /\ txn[w].row.value = JsonDumps(txn[w].value)
               /\ \A k \in AllKeys : k # txn[w].key => store'[k] = store[k]]_vars
    /\ [][store' # store => \E w \in Workers : SetCommit(w)]_vars

\* C25 witness: one worker is between its INSERT and its commit for a key
\* while another worker has called set for the same key with another payload
\* and another ttl.
C25_Witness ==
    \E w, u \in Workers :
        /\ txn[w].pc = "executed"
        /\ txn[u].pc = "connected"
        /\ txn[u].key = txn[w].key
        /\ JsonDumps(txn[u].value) # txn[w].row.value
        /\ txn[u].ttl_hours # txn[w].row.ttl_hours

\* C26: every call of the scraper is made at the time the call stored as the
\* last request time, not less than the minimum delay plus a jitter after
\* the last request time it found; so the calls of the scraper, made by calls
\* that do not overlap, are never closer together than the minimum delay.
C26_MinimumDelayBetweenRequests ==
    /\ [][\A w \in Workers :
            ScrStore(w)
            => /\ clock = scr[w].t
               /\ scr[w].t - LAST_REQUEST_TIME > MIN_DELAY_BETWEEN_REQUESTS]_vars
    /\ [](\A i \in 1..(Len(requests) - 1) :
            requests[i + 1] - requests[i] >= MIN_DELAY_BETWEEN_REQUESTS)

\* C26 witness: the second call came right after the first, slept for what
\* was left of the minimum delay and for the least jitter, and called the
\* scraper.
C26_Witness ==
    /\ Len(requests) = 2
    /\ requests[2] - requests[1] = MIN_DELAY_BETWEEN_REQUESTS + 1

\* C27, the timestamp: no step makes LAST_REQUEST_TIME smaller.
C27_TimestampNeverDecreases ==
    [][LAST_REQUEST_TIME' >= LAST_REQUEST_TIME]_vars

\* C27, the waiting: a call that has entered _call reaches its call of the
\* scraper, whatever the other calls do.
EveryCallReachesTheScraper ==
    \A w \in Workers : (scr[w].pc \in {"sleep", "jitter", "stamp"}) ~> (scr[w].pc = "fetch")

\* What a value is to get_video_transcript when a provider returns it.
IsErrorText(x) == x.t = "str" /\ Len(x.s) > 0 /\ x.s[1] = TRANSCRIPT_ERROR

\* C29: the empty string, and what a provider makes of an empty content
\* field, fail the test of get_video_transcript; an acquisition that gets
\* such an answer does not end in Success and writes no row, and goes on to
\* the next state of the chain, AllFailed when none is left.
C29_EmptyTranscriptIsFailure ==
    /\ [](/\ TranscriptCheck(Str(<<>>)) = "failed"
          /\ \A r \in EmptyResponses : TranscriptCheck(_fetch_via_supdata_api(r)) = "failed")
    /\ [](/\ \A w \in Workers : acq[w].pc # "Success" /\ ~acq[w].wrote
          /\ \A k \in AllKeys : ~store[k].present)
    /\ [][\A w \in Workers, r \in EmptyResponses :
            AcqProviderReturn(w, _fetch_via_supdata_api(r), "none")
            => /\ acq'[w].pc = Advance(Position(acq[w].pc), apiKey,
                                       IS_LOCAL_ENV(env, baseUrl))
               /\ acq'[w].pc \in {"FallbackScraperAttempt", "AllFailed"}
               /\ acq'[w].result = None
               /\ store' = store]_vars

\* C29 witness: the provider was asked, had no text, and the acquisition
\* ended in AllFailed.
C29_Witness ==
    \E w \in Workers :
        /\ acq[w].pc = "AllFailed"
        /\ acq[w].calls # <<>>
        /\ Last(acq[w].calls) = "SecondaryProviderAttempt"
        /\ acq[w].result = None

\* C30: no acquisition ends in Success with a result that is empty or an
\* error text, no row of a transcript holds one, and every answer of a
\* provider that stands for a failure (a timeout, a connection error, an
\* error status, a body that is no JSON or holds no content) fails the test
\* of get_video_transcript.
C30_ErrorTextNeverContent ==
    /\ \A w \in Workers :
         acq[w].pc = "Success"
         => /\ acq[w].result.t = "str"
            /\ Len(acq[w].result.s) > 0
            /\ ~IsErrorText(acq[w].result)
    /\ \A v \in Videos :
         store[TranscriptKey(v)].present
         => LET payload == JsonLoads(store[TranscriptKey(v)].value)
            IN  /\ payload.t = "dict"
                /\ DictGet(payload, "transcript").t = "str"
                /\ Len(DictGet(payload, "transcript").s) > 0
                /\ ~IsErrorText(DictGet(payload, "transcript"))
    /\ \A r \in SupadataResponses :
         ( \/ r.kind # "http"
           \/ r.status >= 400
           \/ r.body.j # "object"
           \/ "content" \notin DOMAIN r.body.m )
         => /\ IsErrorText(_fetch_via_supdata_api(r))
            /\ TranscriptCheck(_fetch_via_supdata_api(r)) = "failed"
    /\ \A o \in ScraperOutcomes :
         o.raised => TranscriptCheck(_fetch_via_youtube_transcript_api(o)) = "failed"

\* C30 witness: an acquisition whose provider call failed ended in AllFailed
\* while another ended in Success with the text of the provider, which is in
\* the table.
C30_Witness ==
    \E w, u \in Workers :
        /\ acq[w].pc = "AllFailed" /\ acq[w].calls # <<>>
        /\ acq[u].pc = "Success" /\ acq[u].calls # <<>>
        /\ store[TranscriptKey(acq[u].vid)].present
        /\ written[TranscriptKey(acq[u].vid)] = Dict([transcript |-> acq[u].result])

\* The result is empty: None, an empty dict, list or str, or the number 0.
EmptyResult(x) ==
    \/ x = None
    \/ x.t = "dict" /\ DOMAIN x.d = {}
    \/ x.t = "list" /\ x.items = <<>>
    \/ x.t = "str" /\ x.s = <<>>
    \/ x.t = "int" /\ x.n = 0

\* C31: analyze writes a row exactly when the analyzer returned a result that
\* is not empty and is no string; the row then is the one of the derived key
\* and has video_id, cache_type llm_analysis, the result as its value, the
\* content hash of the inputs and ttl_hours 24, and every other row is left
\* alone.  An empty result or a string is returned to the caller and no row
\* is written; the cache check and the shortcut for empty input insert nothing.
C31_AnalysisWriteThrough ==
    [][\A w \in Workers :
         /\ \A out \in AnalyzerOutputs :
              AnalyzeReturn(w, out, "none") =>
                LET a == ana[w]
                    r == LlmCall(out)
                    h == GenerateContentHash(Content(a.transcript, a.comments))
                    k == GenerateCacheKey(a.vid, "llm_analysis", h)
                IN  IF r.raised = "none" /\ ~EmptyResult(r.ret) /\ r.ret.t # "str"
                    THEN /\ store' = [store EXCEPT ![k] =
                               Row(a.vid, "llm_analysis", JsonDumps(r.ret), h, 24, now)]
                         /\ ana'[w].wrote
                         /\ ana'[w].pc = "Done"
                         /\ ana'[w].result = r.ret
                    ELSE /\ store' = store
                         /\ ~ana'[w].wrote
                         /\ r.raised = "none" =>
                              ana'[w].pc = "Done" /\ ana'[w].result = r.ret
         /\ \A v \in Videos, i \in AnalyzeInputs :
              AnalyzeStart(w, v, i.transcript, i.comments, "none") =>
                /\ ~ana'[w].wrote
                /\ \A k \in AllKeys : store'[k].present => store'[k] = store[k]]_vars

\* C31 witness: one call has cached the array the analyzer returned, under
\* the key of its inputs, and another has returned a string and cached nothing.
C31_Witness ==
    \E w, u \in Workers :
        /\ ana[w].pc = "Done" /\ ana[w].wrote /\ ana[w].result.t = "list"
        /\ ana[u].pc = "Done" /\ ~ana[u].wrote /\ ana[u].result = Str(<<"sorry">>)
        /\ \E k \in AnalysisKeys :
             /\ store[k].present
             /\ store[k].cache_type = "llm_analysis"
             /\ store[k].ttl_hours = 24
             /\ JsonLoads(store[k].value) = ana[w].result
        /\ Cardinality({k \in AllKeys : store[k].present}) = 1

\* C32: within one acquisition no provider is invoked twice, and a provider
\* call that reports a failure of any subkind is followed by a later state of
\* the chain or by AllFailed, never by a second call of the same provider.
C32_NoInlineRetry ==
    /\ [](\A w \in Workers : \A i, j \in DOMAIN acq[w].calls :
            acq[w].calls[i] = acq[w].calls[j] => i = j)
    /\ [][\A w \in Workers, r \in FailureResponses :
            AcqProviderReturn(w, _fetch_via_supdata_api(r), "none")
            => /\ acq'[w].pc # acq[w].pc
               /\ \/ acq'[w].pc = "AllFailed" /\ acq'[w].calls = acq[w].calls
                  \/ /\ acq'[w].pc \in Range(Chain)
                     /\ Position(acq'[w].pc) > Position(acq[w].pc)
                     /\ acq'[w].calls = Append(acq[w].calls, acq'[w].pc)
               /\ store' = store]_vars

\* C32 witness: on a local host with an API key, an acquisition has ended
\* AllFailed after one call of the secondary provider, and so has a second
\* acquisition of the same video.
C32_Witness ==
    /\ Truthy(apiKey)
    /\ IS_LOCAL_ENV(env, baseUrl)
    /\ \A w \in Workers :
         /\ acq[w].pc = "AllFailed"
         /\ acq[w].vid = FaultVideo
         /\ acq[w].calls = <<"SecondaryProviderAttempt">>

\* Every row the table holds after the step is a row it held before.
RowsKept == \A k \in AllKeys : store'[k].present => store'[k] = store[k]

\* C33: a row changes only by being written whole: a set that succeeds
\* leaves under its key the row of the new write in every column, created_at
\* being the time of this set, and no other row changed; get, stats and
\* every call that fails change no column of any row (a row is as it was, or
\* gone whole).
C33_EntriesChangeWholesale ==
    /\ [][\A value \in Payloads \cup {Unserializable}, ttl \in TtlChoices, f \in StoreFaults :
            CallSetCached(FaultVideo, "transcript", value, ttl, f) =>
              LET k == GenerateCacheKey(FaultVideo, "transcript", None)
              IN  IF resp'.ret = PyBool(TRUE)
                  THEN store' = [store EXCEPT ![k] =
                                   Row(FaultVideo, "transcript", JsonDumps(value), None,
                                       ttl, now)]
                  ELSE store' = store]_vars
    /\ [][\A k \in AllKeys :
            (store[k].present /\ store'[k].present /\ store'[k] # store[k])
            => resp'.op = "set" /\ resp'.ret = PyBool(TRUE)]_vars
    /\ [][(\E k \in FaultKeys, f \in StoreFaults : CallGetCached(k, f)) => RowsKept]_vars
    /\ [][(\E f \in StoreFaults : cache_health(f)) => store' = store]_vars
    /\ [][( \/ \E k \in FaultKeys : CallGetCached(k, "io_error")
            \/ \E k \in FaultKeys : CallDeleteCached(k, "io_error")
            \/ cleanup_cache("io_error")
            \/ \E c \in CacheTypes : clear_cache(c, "io_error") ) => store' = store]_vars

\* C33 witness: the second set of the run has just succeeded, a day or more
\* after the first, and the one row of the table carries the time, the ttl
\* and the value of this set.
C33_Witness ==
    LET k == GenerateCacheKey(FaultVideo, "transcript", None)
    IN  /\ sets = 2
        /\ now >= 24
        /\ resp = [op |-> "set", ret |-> PyBool(TRUE), raised |-> "none"]
        /\ store[k] = Row(FaultVideo, "transcript",
                          JsonDumps(Dict([transcript |-> Str(<<"beta">>)])), None, 1, now)
        /\ \A x \in AllKeys \ {k} : ~store[x].present

\* C34: every acquisition that waits for a provider reaches Success or
\* AllFailed, whatever the other worker's acquisition does.
C34_AcquisitionTerminates ==
    \A w \in Workers :
        [](acq[w].pc \in Range(Chain) => <>(acq[w].pc \in {"Success", "AllFailed"}))

\* Every acquisition that waits for a provider ends: in Success, in AllFailed
\* or with an exception.
EveryAcquisitionEnds ==
    \A w \in Workers : (acq[w].pc \in Range(Chain)) ~> (acq[w].pc \in Terminal)

\* An acquisition calls no provider more often than the chain has providers,
\* and from its first line to a provider or to its end is one step.
AcquisitionBounded ==
    /\ [](\A w \in Workers : Len(acq[w].calls) <= Len(Chain))
    /\ [][\A w \in Workers, v \in Videos :
            AcqStart(w, v, "none") => acq'[w].pc \in Range(Chain) \cup Terminal]_vars
    /\ [][\A w \in Workers :
            (\E t \in ProviderValues : AcqProviderReturn(w, t, "none"))
            => \/ acq'[w].pc \in Terminal
               \/ Len(acq'[w].calls) = Len(acq[w].calls) + 1]_vars

\* C35: the DELETE that get issues for the expired row it read removes no row
\* that get itself would still return: a row written under the key since the
\* read is in the table after the delete.
C35_LazyEvictionKeepsLive ==
    [][\A w \in Workers :
         ( /\ GetDelete(w)
           /\ store[txn[w].key].present
           /\ ~ExpiredOnRead(store[txn[w].key], DefaultTtlHours, now, tzOffset) )
         => store'[txn[w].key] = store[txn[w].key]]_vars

\* get(key) made now would report the row expired: it returns None for a row
\* whose value it could return.
GetReportsExpired(k) ==
    GetCached(store, k, DefaultTtlHours, now, tzOffset).ret = None

\* A sweep made now would delete the row.
SweepDeletes(k) == ~ClearExpiredCache(store, now).db[k].present

\* C36: at every instant and for every row, a sweep would delete the row
\* exactly if a get of its key would report it expired.
C36_SameExpiryJudgement ==
    \A k \in Keys : store[k].present => (SweepDeletes(k) <=> GetReportsExpired(k))

\* On a host that keeps UTC, get and the sweep judge alike every row that
\* was written with the default ttl of 24 hours.
SameExpiryOnDefaults ==
    \A k \in Keys :
        (store[k].present /\ tzOffset = 0 /\ store[k].ttl_hours = DefaultTtlHours)
        => (SweepDeletes(k) <=> GetReportsExpired(k))

\* C37: a call of stats changes no row, and what it returns is a snapshot of
\* the table: total_entries is the number of rows and, every row being a
\* transcript or an llm_analysis, the sum of transcripts and llm_analyses,
\* whatever the other workers do during the call.
C37_StatsConsistentSnapshot ==
    /\ [][(\E w \in Workers : StatsSelect(w) \/ StatsReturn(w)) => store' = store]_vars
    /\ [][(\E w \in Workers : StatsReturn(w)) =>
            resp'.stats.total_entries
              = resp'.stats.transcripts + resp'.stats.llm_analyses]_vars

\* A call of stats that no other call interleaves with returns the number of
\* rows, which is the sum of the transcripts and the llm_analyses.
StatsAloneConsistent ==
    [][cache_health("none") =>
         /\ store' = store
         /\ resp'.stats.total_entries = Cardinality({k \in AllKeys : store[k].present})
         /\ resp'.stats.total_entries
              = resp'.stats.transcripts + resp'.stats.llm_analyses]_vars

\* Every row but the one of key k is after the step as it was before.
OnlyTouches(k) == \A x \in AllKeys \ {k} : store'[x] = store[x]

\* C38: an acquisition for video v inserts, replaces and deletes no row but
\* the one of v's transcript key, and an analysis no row but the one of the
\* key of its video and the content hash of its inputs; the rows of other
\* videos and of the other category are unchanged by every step of either.
C38_OperationsScopedToKey ==
    [][\A w \in Workers :
         /\ \A v \in Videos :
              AcqStart(w, v, "none") => OnlyTouches(GenerateCacheKey(v, "transcript", None))
         /\ (\E r \in PipelineResponses :
                AcqProviderReturn(w, _fetch_via_supdata_api(r), "none"))
              => OnlyTouches(GenerateCacheKey(acq[w].vid, "transcript", None))
         /\ \A v \in Videos, i \in PipelineInputs :
              AnalyzeStart(w, v, i.transcript, i.comments, "none")
              => OnlyTouches(AnalysisKey(v, i.transcript, i.comments))
         /\ (\E out \in PipelineOutputs : AnalyzeReturn(w, out, "none"))
              => OnlyTouches(AnalysisKey(ana[w].vid, ana[w].transcript, ana[w].comments))]_vars

\* C38 witness: the transcript of a video and an analysis of it were cached
\* at hour 0 and are still as they were written, while a later acquisition
\* has found the transcript row expired and removed it, or has written the
\* transcript row of the other video.
C38_Witness ==
    \E v, u \in Videos, k \in SearchKeys, w \in Workers :
        /\ now > 0
        /\ store[k].present
        /\ store[k].video_id = v
        /\ store[k].created_at = 0
        /\ acq[w].vid = u
        /\ \/ /\ u # v
              /\ acq[w].pc = "Success"
              /\ acq[w].wrote
              /\ store[GenerateCacheKey(u, "transcript", None)].created_at = now
              /\ store[GenerateCacheKey(v, "transcript", None)].present
              /\ store[GenerateCacheKey(v, "transcript", None)].created_at = 0
           \/ /\ u = v
              /\ now > DefaultTtlHours
              /\ acq[w].pc = "SecondaryProviderAttempt"
              /\ written[GenerateCacheKey(v, "transcript", None)] = None

\* C39: no call leaves a row under the key that a call without transcript
\* and without comments derives, and such a call returns the empty result
\* without the analyzer, whatever calls for the video were made before.
C39_EmptyInputAlwaysEmpty ==
    /\ [](\A i \in EmptyKeyInputs :
            EmptyInput(i.transcript, i.comments)
            => ~store[AnalysisKey(FaultVideo, i.transcript, i.comments)].present)
    /\ [][\A w \in Workers, i \in EmptyKeyInputs :
            ( /\ AnalyzeStart(w, FaultVideo, i.transcript, i.comments, "none")
              /\ EmptyInput(i.transcript, i.comments) )
            => /\ ana'[w].pc = "Done"
               /\ ana'[w].result = Dict(<<>>)
               /\ ~ana'[w].invoked]_vars

\* A call with an empty transcript text and no comments returns the empty
\* result, whatever calls with a transcript text and no comments came before.
EmptyTextAlwaysEmpty ==
    /\ [](~store[AnalysisKey(FaultVideo, Str(<<>>), <<>>)].present)
    /\ [][\A w \in Workers :
            AnalyzeStart(w, FaultVideo, Str(<<>>), <<>>, "none")
            => ana'[w].pc = "Done" /\ ana'[w].result = Dict(<<>>)]_vars

====
